---- MODULE Spec2Model ----
(***************************************************************************)
(* Rules engine of the Splendor activity: createGame, validateAction,      *)
(* applyAction and the availability helpers, as a state machine over one   *)
(* GameState value that the embedding layer replaces after every accepted  *)
(* action.                                                                 *)
(*                                                                         *)
(* The card and noble catalogue is a bounded one in the shape of           *)
(* data/cards.ts (same fields, three tiers, costs and requirements scaled  *)
(* down) so that purchases, noble awards, the discard sub-flow and the     *)
(* 15 point trigger all occur within the explored depth.                   *)
(***************************************************************************)
EXTENDS Integers, Sequences, FiniteSets, TLC

\* ---------------------------------------------------------------------------
\* types.ts : gem types and game constants
\* ---------------------------------------------------------------------------
GEM_COLORS == <<"emerald", "diamond", "sapphire", "onyx", "ruby">>

GEM_TYPES == GEM_COLORS \o <<"gold">>

Colors == {GEM_COLORS[i] : i \in 1..Len(GEM_COLORS)}

GemTypes == {GEM_TYPES[i] : i \in 1..Len(GEM_TYPES)}

MAX_GEMS == 10

MAX_RESERVED_CARDS == 3

WINNING_POINTS == 15

NOBLE_POINTS == 3

MARKET_SIZE == 4

MIN_GEMS_FOR_TAKE_TWO == 4

INITIAL_GEM_COUNTS ==
  [n \in {2, 3, 4} |->
     CASE n = 2 -> [colored |-> 4, gold |-> 5]
       [] n = 3 -> [colored |-> 5, gold |-> 5]
       [] n = 4 -> [colored |-> 7, gold |-> 5]]

\* `undefined` (an unset optional field, a failed find) and a null market slot
UNDEFINED == "undefined"

NULL == "null"

\* ---------------------------------------------------------------------------
\* Bounds of the exploration
\* ---------------------------------------------------------------------------
\* number of applyAction calls the embedder makes in one explored game
MaxSteps == 7

\* the same number for the games explored to their end
MaxEndgameSteps == 8

\* end-of-turn checks made on one table of the final standings
MaxTableTurns == 3

\* applyAction calls in one explored game of reservations and purchases
MaxZoneSteps == 6

\* applyAction calls after createGame on drawn inputs
MaxCreateSteps == 1

\* socket events handled by the backend in one explored session
MaxServerSteps == 6

\* applyAction calls after a noble selection was left pending
MaxLateSteps == 2

\* applyAction calls of a game without purchases
MaxDrySteps == 14

\* ---------------------------------------------------------------------------
\* data/cards.ts : the catalogue
\* ---------------------------------------------------------------------------
emptyGems == [c \in Colors |-> 0]

cost(gems) == [c \in Colors |-> IF c \in DOMAIN gems THEN gems[c] ELSE emptyGems[c]]

TIER_1_CARDS == <<
  [id |-> "t1_d01", tier |-> 1, cost |-> cost([emerald |-> 3, onyx |-> 2]), bonus |-> "diamond", prestigePoints |-> 0],
  [id |-> "t1_e01", tier |-> 1, cost |-> cost([diamond |-> 1]), bonus |-> "emerald", prestigePoints |-> 0],
  [id |-> "t1_s01", tier |-> 1, cost |-> cost([emerald |-> 2]), bonus |-> "sapphire", prestigePoints |-> 1],
  [id |-> "t1_o01", tier |-> 1, cost |-> cost([ruby |-> 4]), bonus |-> "onyx", prestigePoints |-> 1],
  [id |-> "t1_r01", tier |-> 1, cost |-> cost([diamond |-> 3, sapphire |-> 3]), bonus |-> "ruby", prestigePoints |-> 0],
  [id |-> "t1_e02", tier |-> 1, cost |-> cost([sapphire |-> 1, onyx |-> 1]), bonus |-> "emerald", prestigePoints |-> 0] >>

TIER_2_CARDS == <<
  [id |-> "t2_d01", tier |-> 2, cost |-> cost([emerald |-> 3, sapphire |-> 2, onyx |-> 2]), bonus |-> "diamond", prestigePoints |-> 1],
  [id |-> "t2_s01", tier |-> 2, cost |-> cost([diamond |-> 5]), bonus |-> "sapphire", prestigePoints |-> 2],
  [id |-> "t2_e01", tier |-> 2, cost |-> cost([sapphire |-> 5]), bonus |-> "emerald", prestigePoints |-> 2],
  [id |-> "t2_r01", tier |-> 2, cost |-> cost([onyx |-> 5]), bonus |-> "ruby", prestigePoints |-> 2],
  [id |-> "t2_o01", tier |-> 2, cost |-> cost([emerald |-> 5, ruby |-> 3]), bonus |-> "onyx", prestigePoints |-> 2] >>

TIER_3_CARDS == <<
  [id |-> "t3_d01", tier |-> 3, cost |-> cost([sapphire |-> 1]), bonus |-> "diamond", prestigePoints |-> 5],
  [id |-> "t3_s01", tier |-> 3, cost |-> cost([diamond |-> 2]), bonus |-> "sapphire", prestigePoints |-> 5],
  [id |-> "t3_e01", tier |-> 3, cost |-> cost([emerald |-> 7]), bonus |-> "emerald", prestigePoints |-> 4],
  [id |-> "t3_o01", tier |-> 3, cost |-> cost([ruby |-> 7, onyx |-> 3]), bonus |-> "onyx", prestigePoints |-> 5] >>

NOBLES == <<
  [id |-> "noble_01", requirements |-> cost([emerald |-> 1]), prestigePoints |-> 3],
  [id |-> "noble_02", requirements |-> cost([emerald |-> 1]), prestigePoints |-> 3],
  [id |-> "noble_03", requirements |-> cost([diamond |-> 1, sapphire |-> 1]), prestigePoints |-> 3],
  [id |-> "noble_04", requirements |-> cost([onyx |-> 3, ruby |-> 3]), prestigePoints |-> 3],
  [id |-> "noble_05", requirements |-> cost([diamond |-> 3, sapphire |-> 3, onyx |-> 3]), prestigePoints |-> 3] >>

getCardsByTier(tier) ==
  CASE tier = 1 -> TIER_1_CARDS
    [] tier = 2 -> TIER_2_CARDS
    [] tier = 3 -> TIER_3_CARDS

getAllCards == TIER_1_CARDS \o TIER_2_CARDS \o TIER_3_CARDS

getAllNobles == NOBLES

IdsIn(catalogue) == {catalogue[i].id : i \in 1..Len(catalogue)}

CardIds == IdsIn(getAllCards)

NobleIds == IdsIn(NOBLES)

\* the entry of the catalogue with the given id
Entry(catalogue, id) ==
  CHOOSE entry \in {catalogue[i] : i \in 1..Len(catalogue)} : entry.id = id

\* cards.find(card => card.id === id) over the catalogue, whose ids are unique;
\* the lookup table is computed once
CardById == [id \in CardIds |-> Entry(getAllCards, id)]

NobleById == [id \in NobleIds |-> Entry(NOBLES, id)]

findCardById(id) == CardById[id]

findNobleById(id) == NobleById[id]

\* ---------------------------------------------------------------------------
\* Array helpers (Array.prototype.find / findIndex / filter / splice)
\* ---------------------------------------------------------------------------
\* index of the first element equal to x, 0 for the -1 of findIndex
IndexOf(seq, x) ==
  LET hits == {i \in 1..Len(seq) : seq[i] = x}
  IN  IF hits = {} THEN 0 ELSE CHOOSE i \in hits : \A j \in hits : i <= j

RemoveAt(seq, i) == [k \in 1..(Len(seq) - 1) |-> IF k < i THEN seq[k] ELSE seq[k + 1]]

RECURSIVE FilterSeq(_, _)
FilterSeq(seq, keep) ==
  IF seq = <<>> THEN <<>>
  ELSE IF Head(seq) \in keep THEN <<Head(seq)>> \o FilterSeq(Tail(seq), keep)
       ELSE FilterSeq(Tail(seq), keep)

Range(seq) == {seq[i] : i \in 1..Len(seq)}

Count(seq, x) == Cardinality({i \in 1..Len(seq) : seq[i] = x})

Max(a, b) == IF a >= b THEN a ELSE b

Min(a, b) == IF a <= b THEN a ELSE b

\* ---------------------------------------------------------------------------
\* initialization.ts
\* ---------------------------------------------------------------------------
createEmptyGemCollection == [g \in GemTypes |-> 0]

createEmptyColoredGemCollection == [c \in Colors |-> 0]

\* Fault variant of createInitialBank: the gold follows the coloured count.
createInitialBank_goldScaled(playerCount) ==
  [g \in GemTypes |-> INITIAL_GEM_COUNTS[playerCount].colored]

createInitialBank(playerCount) ==
  [g \in GemTypes |-> IF g = "gold" THEN INITIAL_GEM_COUNTS[playerCount].gold
                      ELSE INITIAL_GEM_COUNTS[playerCount].colored]

createPlayer(id) ==
  [id |-> id,
   gems |-> createEmptyGemCollection,
   bonuses |-> createEmptyColoredGemCollection,
   reservedCards |-> <<>>,
   purchasedCards |-> <<>>,
   nobles |-> <<>>,
   prestigePoints |-> 0]

\* array.slice(from, to) with 0-based, end-exclusive indices
Slice(seq, from, to) == SubSeq(seq, from + 1, Min(to, Len(seq)))

\* randomFn: an injected random source.  The explored sources are the constant
\* functions returning num/den, a value in [0, 1).
RandomSources == { [num |-> 0, den |-> 1], [num |-> 1, den |-> 2] }

Swap(seq, a, b) == [seq EXCEPT ![a] = seq[b], ![b] = seq[a]]

\* the loop of shuffleArray from index i (0-based) down to 1, with
\* j = Math.floor(randomFn() * (i + 1))
RECURSIVE FisherYates(_, _, _)
FisherYates(result, i, randomFn) ==
  IF i <= 0 THEN result
  ELSE LET j == (randomFn.num * (i + 1)) \div randomFn.den
       IN  FisherYates(Swap(result, i + 1, j + 1), i - 1, randomFn)

shuffleArray(array, randomFn) == FisherYates(array, Len(array) - 1, randomFn)

Ids(seq) == [i \in 1..Len(seq) |-> seq[i].id]

createShuffledDecks(randomFn) ==
  [t \in {1, 2, 3} |-> shuffleArray(Ids(getCardsByTier(t)), randomFn)]

createInitialMarket(decks) ==
  [market |-> [t \in {1, 2, 3} |-> Slice(decks[t], 0, MARKET_SIZE)],
   remainingDecks |-> [t \in {1, 2, 3} |-> Slice(decks[t], MARKET_SIZE, Len(decks[t]))]]

selectNobles(playerCount, randomFn) ==
  Slice(shuffleArray(Ids(getAllNobles), randomFn), 0, playerCount + 1)

randomizePlayerOrder(players, randomFn) == shuffleArray(players, randomFn)

\* createGame for a playerInfos list of the configured length (a length
\* mismatch throws before any state exists).  The containers of the state hold
\* card and noble ids; the immutable records are looked up in the catalogue.
createGame(playerCount, playerInfos, randomFn) ==
  LET players == [i \in 1..Len(playerInfos) |-> createPlayer(playerInfos[i])]
      dealt == createInitialMarket(createShuffledDecks(randomFn))
  IN  [phase |-> "playing",
       players |-> randomizePlayerOrder(players, randomFn),
       currentPlayerIndex |-> 0,
       bank |-> createInitialBank(playerCount),
       market |-> dealt.market,
       decks |-> dealt.remainingDecks,
       nobles |-> selectNobles(playerCount, randomFn),
       round |-> 1,
       endGameTriggeredBy |-> UNDEFINED,
       winners |-> <<>>,
       pendingGemDiscard |-> UNDEFINED,
       pendingNobleSelection |-> UNDEFINED]

\* state.players.find(p => p.id === playerId), as a 1-based index; 0 when
\* no player has that id
PlayerIdx(state, playerId) ==
  LET hits == {i \in 1..Len(state.players) : state.players[i].id = playerId}
  IN  IF hits = {} THEN 0 ELSE CHOOSE i \in hits : \A j \in hits : i <= j

\* used where the find succeeded (PlayerIdx > 0)
getPlayerById(state, playerId) == state.players[PlayerIdx(state, playerId)]

getCurrentPlayer(state) == state.players[state.currentPlayerIndex + 1]

\* ---------------------------------------------------------------------------
\* validators.ts
\* ---------------------------------------------------------------------------
Valid == [valid |-> TRUE, errorCode |-> UNDEFINED]

Invalid(code) == [valid |-> FALSE, errorCode |-> code]

isPlayersTurn(state, playerId) == getCurrentPlayer(state).id = playerId

\* Fault variant of isGameInProgress: a finished game still counts as in
\* progress.
isGameInProgress_endedCounts(state) == state.phase # "waiting"

isGameInProgress(state) == state.phase = "playing" \/ state.phase = "final_round"

\* tier1.find(..) ?? tier2.find(..) ?? tier3.find(..): the tier whose market
\* row holds the card, 0 when no row does
MarketTierOf(state, cardId) ==
  LET hits == {t \in {1, 2, 3} :
                 \E i \in 1..Len(state.market[t]) :
                    state.market[t][i] # NULL /\ state.market[t][i] = cardId}
  IN  IF hits = {} THEN 0 ELSE CHOOSE t \in hits : \A u \in hits : t <= u

\* the id of the card found, UNDEFINED when it is in no market row
findCardInMarket(state, cardId) ==
  IF MarketTierOf(state, cardId) = 0 THEN UNDEFINED ELSE cardId

getDeckByTier(state, tier) == state.decks[tier]

\* findCardInMarket(..) ?? player.reservedCards.find(..)
FindMarketOrReserved(state, player, cardId) ==
  IF findCardInMarket(state, cardId) # UNDEFINED THEN cardId
  ELSE IF IndexOf(player.reservedCards, cardId) # 0 THEN cardId
  ELSE UNDEFINED

\* null when the player or the card is not found
calculateEffectiveCost(state, playerId, cardId) ==
  IF PlayerIdx(state, playerId) = 0 THEN [null |-> TRUE]
  ELSE LET player == getPlayerById(state, playerId)
       IN  IF FindMarketOrReserved(state, player, cardId) = UNDEFINED
           THEN [null |-> TRUE]
           ELSE [null |-> FALSE,
                 value |-> [c \in Colors |->
                    Max(0, findCardById(cardId).cost[c] - player.bonuses[c])]]

\* sum over GEM_COLORS of f(color)
RECURSIVE SumOver(_, _)
SumOver(colors, f) ==
  IF colors = <<>> THEN 0 ELSE f[Head(colors)] + SumOver(Tail(colors), f)

\* Fault variant of canAffordCard: the gold needed for the shortfall is not
\* compared with the gold held.
canAffordCard_goldUnchecked(state, playerId, cardId) ==
  IF PlayerIdx(state, playerId) = 0 THEN FALSE
  ELSE ~calculateEffectiveCost(state, playerId, cardId).null

canAffordCard(state, playerId, cardId) ==
  IF PlayerIdx(state, playerId) = 0 THEN FALSE
  ELSE LET Covers(player, effectiveCost) ==
             IF effectiveCost.null THEN FALSE
             ELSE LET shortfall == [c \in Colors |->
                         IF effectiveCost.value[c] - player.gems[c] > 0
                         THEN effectiveCost.value[c] - player.gems[c] ELSE 0]
                      goldNeeded == SumOver(GEM_COLORS, shortfall)
                  IN  player.gems.gold >= goldNeeded
       IN  Covers(getPlayerById(state, playerId),
                  calculateEffectiveCost(state, playerId, cardId))

MeetsRequirements(player, nobleId) ==
  \A c \in Colors : ~(player.bonuses[c] < findNobleById(nobleId).requirements[c])

\* ids of the available nobles the player qualifies for, in pool order
getEligibleNobles(state, playerId) ==
  IF PlayerIdx(state, playerId) = 0 THEN <<>>
  ELSE FilterSeq(state.nobles,
                 {n \in Range(state.nobles) :
                    MeetsRequirements(getPlayerById(state, playerId), n)})

getTotalGems(state, playerId) ==
  IF PlayerIdx(state, playerId) = 0 THEN 0
  ELSE LET player == getPlayerById(state, playerId)
       IN  player.gems.emerald + player.gems.diamond + player.gems.sapphire +
           player.gems.onyx + player.gems.ruby + player.gems.gold

needsToDiscardGems(state, playerId) == getTotalGems(state, playerId) > MAX_GEMS

\* Fault variant of validateTakeThreeGems: the bank is not consulted.
validateTakeThreeGems_bankUnchecked(state, action) ==
  IF ~isPlayersTurn(state, action.playerId) THEN Invalid("NOT_PLAYERS_TURN")
  ELSE IF Len(action.gems) < 1 \/ Len(action.gems) > 3 THEN Invalid("INVALID_ACTION")
  ELSE IF Cardinality(Range(action.gems)) # Len(action.gems) THEN Invalid("GEMS_NOT_DISTINCT")
  ELSE IF \E i \in 1..Len(action.gems) : action.gems[i] \notin Colors
       THEN Invalid("CANNOT_TAKE_GOLD")
  ELSE Valid

validateTakeThreeGems(state, action) ==
  IF ~isPlayersTurn(state, action.playerId) THEN Invalid("NOT_PLAYERS_TURN")
  ELSE IF Len(action.gems) < 1 \/ Len(action.gems) > 3 THEN Invalid("INVALID_ACTION")
  ELSE IF Cardinality(Range(action.gems)) # Len(action.gems) THEN Invalid("GEMS_NOT_DISTINCT")
  ELSE IF \E i \in 1..Len(action.gems) : action.gems[i] \notin Colors
       THEN Invalid("CANNOT_TAKE_GOLD")
  ELSE IF \E i \in 1..Len(action.gems) : state.bank[action.gems[i]] < 1
       THEN Invalid("INSUFFICIENT_GEMS_IN_BANK")
  ELSE Valid

\* Fault variant of validateTakeTwoGems: three gems in the bank are taken to
\* suffice.
validateTakeTwoGems_threeSuffice(state, action) ==
  IF ~isPlayersTurn(state, action.playerId) THEN Invalid("NOT_PLAYERS_TURN")
  ELSE IF action.gem \notin Colors THEN Invalid("CANNOT_TAKE_GOLD")
  ELSE IF state.bank[action.gem] < MIN_GEMS_FOR_TAKE_TWO - 1
       THEN Invalid("REQUIRES_FOUR_GEMS_FOR_TWO")
  ELSE Valid

validateTakeTwoGems(state, action) ==
  IF ~isPlayersTurn(state, action.playerId) THEN Invalid("NOT_PLAYERS_TURN")
  ELSE IF action.gem \notin Colors THEN Invalid("CANNOT_TAKE_GOLD")
  ELSE IF state.bank[action.gem] < MIN_GEMS_FOR_TAKE_TWO
       THEN Invalid("REQUIRES_FOUR_GEMS_FOR_TWO")
  ELSE Valid

\* Fault variant of validateReserveCard: the number of cards already reserved
\* is not compared with MAX_RESERVED_CARDS.
validateReserveCard_limitUnchecked(state, action) ==
  IF ~isPlayersTurn(state, action.playerId) THEN Invalid("NOT_PLAYERS_TURN")
  ELSE IF PlayerIdx(state, action.playerId) = 0 THEN Invalid("INVALID_ACTION")
  ELSE IF action.cardId # NULL
       THEN IF findCardInMarket(state, action.cardId) = UNDEFINED
            THEN Invalid("CARD_NOT_AVAILABLE") ELSE Valid
       ELSE IF Len(getDeckByTier(state, action.tier)) = 0
            THEN Invalid("CARD_NOT_AVAILABLE") ELSE Valid

validateReserveCard(state, action) ==
  IF ~isPlayersTurn(state, action.playerId) THEN Invalid("NOT_PLAYERS_TURN")
  ELSE IF PlayerIdx(state, action.playerId) = 0 THEN Invalid("INVALID_ACTION")
  ELSE IF Len(getPlayerById(state, action.playerId).reservedCards) >= MAX_RESERVED_CARDS
       THEN Invalid("MAX_RESERVED_CARDS")
  ELSE IF action.cardId # NULL
       THEN IF findCardInMarket(state, action.cardId) = UNDEFINED
            THEN Invalid("CARD_NOT_AVAILABLE") ELSE Valid
       ELSE IF Len(getDeckByTier(state, action.tier)) = 0
            THEN Invalid("CARD_NOT_AVAILABLE") ELSE Valid

\* Fault variant of validatePurchaseCard: the card is looked for in the
\* reserved cards of every player.
validatePurchaseCard_anyReserved(state, action) ==
  IF ~isPlayersTurn(state, action.playerId) THEN Invalid("NOT_PLAYERS_TURN")
  ELSE IF PlayerIdx(state, action.playerId) = 0 THEN Invalid("INVALID_ACTION")
  ELSE IF \A i \in 1..Len(state.players) :
             FindMarketOrReserved(state, state.players[i], action.cardId) = UNDEFINED
       THEN Invalid("CARD_NOT_AVAILABLE")
  ELSE IF ~canAffordCard(state, action.playerId, action.cardId)
       THEN Invalid("INSUFFICIENT_PAYMENT")
  ELSE Valid

validatePurchaseCard(state, action) ==
  IF ~isPlayersTurn(state, action.playerId) THEN Invalid("NOT_PLAYERS_TURN")
  ELSE IF PlayerIdx(state, action.playerId) = 0 THEN Invalid("INVALID_ACTION")
  ELSE IF FindMarketOrReserved(state, getPlayerById(state, action.playerId),
                               action.cardId) = UNDEFINED
       THEN Invalid("CARD_NOT_AVAILABLE")
  ELSE IF ~canAffordCard(state, action.playerId, action.cardId)
       THEN Invalid("INSUFFICIENT_PAYMENT")
  ELSE Valid

validateSelectNoble(state, action) ==
  IF PlayerIdx(state, action.playerId) = 0 THEN Invalid("INVALID_ACTION")
  ELSE IF IndexOf(state.nobles, action.nobleId) = 0 THEN Invalid("NOBLE_NOT_ELIGIBLE")
  ELSE IF ~MeetsRequirements(getPlayerById(state, action.playerId), action.nobleId)
       THEN Invalid("NOBLE_NOT_ELIGIBLE")
  ELSE Valid

\* Fault variant of validateDiscardGems: the check that the player holds the
\* gems of the payload is missing.
validateDiscardGems_holdingUnchecked(state, action) ==
  IF PlayerIdx(state, action.playerId) = 0 THEN Invalid("INVALID_ACTION")
  ELSE LET totalGems == getTotalGems(state, action.playerId)
           counted == {g \in DOMAIN action.gems : ~(action.gems[g] < 0)}
           totalDiscard ==
             SumOver(FilterSeq(GEM_TYPES, counted), action.gems)
           afterDiscard == totalGems - totalDiscard
       IN  IF totalGems <= MAX_GEMS THEN Invalid("INVALID_ACTION")
           ELSE IF afterDiscard # MAX_GEMS THEN Invalid("INVALID_DISCARD_AMOUNT")
           ELSE Valid

\* Fault variant of validateDiscardGems: the check that the discard brings the
\* total to exactly MAX_GEMS is missing.
validateDiscardGems_anyTotal(state, action) ==
  IF PlayerIdx(state, action.playerId) = 0 THEN Invalid("INVALID_ACTION")
  ELSE LET player == getPlayerById(state, action.playerId)
           totalGems == getTotalGems(state, action.playerId)
           counted == {g \in DOMAIN action.gems : ~(action.gems[g] < 0)}
       IN  IF totalGems <= MAX_GEMS THEN Invalid("INVALID_ACTION")
           ELSE IF \E g \in counted : player.gems[g] < action.gems[g]
                THEN Invalid("INVALID_DISCARD_AMOUNT")
           ELSE Valid

\* action.gems is a partial mapping: a function on a subset of the gem types.
\* Entries with a negative count are skipped by the loop.
validateDiscardGems(state, action) ==
  IF PlayerIdx(state, action.playerId) = 0 THEN Invalid("INVALID_ACTION")
  ELSE LET player == getPlayerById(state, action.playerId)
           totalGems == getTotalGems(state, action.playerId)
           counted == {g \in DOMAIN action.gems : ~(action.gems[g] < 0)}
           totalDiscard ==
             SumOver(FilterSeq(GEM_TYPES, counted), action.gems)
           afterDiscard == totalGems - totalDiscard
       IN  IF totalGems <= MAX_GEMS THEN Invalid("INVALID_ACTION")
           ELSE IF \E g \in counted : player.gems[g] < action.gems[g]
                THEN Invalid("INVALID_DISCARD_AMOUNT")
           ELSE IF afterDiscard # MAX_GEMS THEN Invalid("INVALID_DISCARD_AMOUNT")
           ELSE Valid

validateAction(state, action) ==
  IF ~isGameInProgress(state) THEN Invalid("GAME_NOT_IN_PROGRESS")
  ELSE CASE action.type = "TAKE_THREE_GEMS" -> validateTakeThreeGems(state, action)
         [] action.type = "TAKE_TWO_GEMS" -> validateTakeTwoGems(state, action)
         [] action.type = "RESERVE_CARD" -> validateReserveCard(state, action)
         [] action.type = "PURCHASE_CARD" -> validatePurchaseCard(state, action)
         [] action.type = "SELECT_NOBLE" -> validateSelectNoble(state, action)
         [] action.type = "DISCARD_GEMS" -> validateDiscardGems(state, action)
         [] OTHER -> Invalid("INVALID_ACTION")

\* ---------------------------------------------------------------------------
\* availability.ts
\* ---------------------------------------------------------------------------
\* the second loop of getCardShortfall: the gold held is spread over the
\* colours in GEM_COLORS order
RECURSIVE SpreadGold(_, _, _)
SpreadGold(colors, shortfall, goldAvailable) ==
  IF colors = <<>> THEN shortfall
  ELSE LET color == Head(colors)
       IN  IF goldAvailable > 0 /\ shortfall[color] > 0
           THEN LET goldUsed == Min(goldAvailable, shortfall[color])
                IN  SpreadGold(Tail(colors),
                               [shortfall EXCEPT ![color] = @ - goldUsed],
                               goldAvailable - goldUsed)
           ELSE SpreadGold(Tail(colors), shortfall, goldAvailable)

\* Fault variant of getCardShortfall: the gold held is not subtracted.
getCardShortfall_goldIgnored(state, playerId, cardId) ==
  IF PlayerIdx(state, playerId) = 0 THEN createEmptyColoredGemCollection
  ELSE LET player == getPlayerById(state, playerId)
           effectiveCost == calculateEffectiveCost(state, playerId, cardId)
       IN  IF effectiveCost.null THEN createEmptyColoredGemCollection
           ELSE [c \in Colors |->
                   IF effectiveCost.value[c] - player.gems[c] > 0
                   THEN effectiveCost.value[c] - player.gems[c] ELSE 0]

\* all zeros when the player or the card is not found
getCardShortfall(state, playerId, cardId) ==
  IF PlayerIdx(state, playerId) = 0 THEN createEmptyColoredGemCollection
  ELSE LET player == getPlayerById(state, playerId)
           effectiveCost == calculateEffectiveCost(state, playerId, cardId)
       IN  IF effectiveCost.null THEN createEmptyColoredGemCollection
           ELSE LET shortfall == [c \in Colors |->
                       IF effectiveCost.value[c] - player.gems[c] > 0
                       THEN effectiveCost.value[c] - player.gems[c] ELSE 0]
                IN  SpreadGold(GEM_COLORS, shortfall, player.gems.gold)

\* ids of the cards face-up in the market, tier by tier, null slots left out
getMarketCards(state) ==
  FilterSeq(state.market[1], CardIds) \o FilterSeq(state.market[2], CardIds)
    \o FilterSeq(state.market[3], CardIds)

hasDeckCards(state, tier) == Len(state.decks[tier]) > 0

\* Fault variant of getTakeGemOptions: every colour the bank still holds is
\* offered for a take-two, whatever the count.
getTakeGemOptions_twoFromAnyCount(state) ==
  LET availableForThree == FilterSeq(GEM_COLORS, {c \in Colors : state.bank[c] >= 1})
  IN  [canTakeThree |-> Len(availableForThree) >= 1,
       availableForThree |-> availableForThree,
       availableForTwo |-> availableForThree]

getTakeGemOptions(state) ==
  LET availableForThree == FilterSeq(GEM_COLORS, {c \in Colors : state.bank[c] >= 1})
      availableForTwo ==
        FilterSeq(GEM_COLORS, {c \in Colors : state.bank[c] >= MIN_GEMS_FOR_TAKE_TWO})
  IN  [canTakeThree |-> Len(availableForThree) >= 1,
       availableForThree |-> availableForThree,
       availableForTwo |-> availableForTwo]

NoReservableCards == [canReserve |-> FALSE, marketCards |-> <<>>, blindDrawTiers |-> <<>>]

getReservableCards(state, playerId) ==
  IF PlayerIdx(state, playerId) = 0 THEN NoReservableCards
  ELSE IF ~(Len(getPlayerById(state, playerId).reservedCards) < MAX_RESERVED_CARDS)
       THEN NoReservableCards
  ELSE [canReserve |-> TRUE,
        marketCards |-> getMarketCards(state),
        blindDrawTiers |-> FilterSeq(<<1, 2, 3>>, {t \in {1, 2, 3} : hasDeckCards(state, t)})]

getPurchasableCards(state, playerId) ==
  IF PlayerIdx(state, playerId) = 0 THEN [marketCards |-> <<>>, reservedCards |-> <<>>]
  ELSE LET affordable == {c \in CardIds : canAffordCard(state, playerId, c)}
       IN  [marketCards |-> FilterSeq(getMarketCards(state), affordable),
            reservedCards |-> FilterSeq(getPlayerById(state, playerId).reservedCards,
                                        affordable)]

NoTakeGemOptions ==
  [canTakeThree |-> FALSE, availableForThree |-> <<>>, availableForTwo |-> <<>>]

getEmptyAvailableActions ==
  [isPlayerTurn |-> FALSE,
   mustDiscardGems |-> FALSE,
   gemsToDiscard |-> 0,
   mustSelectNoble |-> FALSE,
   selectableNobles |-> <<>>,
   takeGems |-> NoTakeGemOptions,
   reservableCards |-> NoReservableCards,
   purchasableCards |-> [marketCards |-> <<>>, reservedCards |-> <<>>]]

getAvailableActions(state, playerId) ==
  IF PlayerIdx(state, playerId) = 0 THEN getEmptyAvailableActions
  ELSE
    LET isMyTurn == isPlayersTurn(state, playerId) /\ isGameInProgress(state)
        totalGems == getTotalGems(state, playerId)
        eligibleNobleIds == getEligibleNobles(state, playerId)
        mustSelectNoble ==
          state.pendingNobleSelection = playerId /\ Len(eligibleNobleIds) > 1
        mustDiscardGems == state.pendingGemDiscard = playerId
        gemsToDiscard == IF mustDiscardGems THEN totalGems - MAX_GEMS ELSE 0
    IN  IF ~isMyTurn \/ mustDiscardGems \/ mustSelectNoble
        THEN [isPlayerTurn |-> isMyTurn,
              mustDiscardGems |-> mustDiscardGems,
              gemsToDiscard |-> gemsToDiscard,
              mustSelectNoble |-> mustSelectNoble,
              selectableNobles |-> IF mustSelectNoble THEN eligibleNobleIds ELSE <<>>,
              takeGems |-> NoTakeGemOptions,
              reservableCards |-> NoReservableCards,
              purchasableCards |-> [marketCards |-> <<>>, reservedCards |-> <<>>]]
        ELSE [isPlayerTurn |-> isMyTurn,
              mustDiscardGems |-> mustDiscardGems,
              gemsToDiscard |-> gemsToDiscard,
              mustSelectNoble |-> mustSelectNoble,
              selectableNobles |-> <<>>,
              takeGems |-> getTakeGemOptions(state),
              reservableCards |-> getReservableCards(state, playerId),
              purchasableCards |-> getPurchasableCards(state, playerId)]

\* ---------------------------------------------------------------------------
\* actions.ts : helpers, game end, turn management
\* ---------------------------------------------------------------------------
cloneGameState(state) == state

getDeckByTierMutable(state, tier) == state.decks[tier]

getMarketByTierMutable(state, tier) == state.market[tier]

\* sets the slot of the card to null; card is UNDEFINED when no row holds it
removeCardFromMarket(state, cardId) ==
  LET t == MarketTierOf(state, cardId)
  IN  IF t = 0 THEN [state |-> state, card |-> UNDEFINED]
      ELSE [state |-> [state EXCEPT !.market[t][IndexOf(state.market[t], cardId)] = NULL],
            card |-> cardId]

\* Fault variant of refillMarketSlot: the vacated slot is left empty.
refillMarketSlot_slotLeftEmpty(state, tier) == state

\* Fault variant of refillMarketSlot: the card dealt into the slot stays on
\* top of the deck.
refillMarketSlot_deckKept(state, tier) ==
  LET deck == getDeckByTierMutable(state, tier)
      market == getMarketByTierMutable(state, tier)
      emptyIndex == IndexOf(market, NULL)
  IN  IF Len(deck) > 0 /\ emptyIndex # 0
      THEN [state EXCEPT !.market[tier][emptyIndex] = Head(deck)]
      ELSE state

\* moves the head of the tier's deck into the first null slot of its row
refillMarketSlot(state, tier) ==
  LET deck == getDeckByTierMutable(state, tier)
      market == getMarketByTierMutable(state, tier)
      emptyIndex == IndexOf(market, NULL)
  IN  IF Len(deck) > 0 /\ emptyIndex # 0
      THEN [state EXCEPT !.decks[tier] = Tail(deck),
                         !.market[tier][emptyIndex] = Head(deck)]
      ELSE state

\* prestige and purchased-card count maxima and minima over a set of players
MaxOf(S) == CHOOSE m \in S : \A x \in S : x <= m

MinOf(S) == CHOOSE m \in S : \A x \in S : m <= x

\* Fault variant of determineWinners: of the players tied on prestige and on
\* purchased cards only the first is returned.
determineWinners_firstOfTied(state) ==
  IF Len(state.players) = 0 THEN <<>>
  ELSE
    LET all == 1..Len(state.players)
        maxPoints == MaxOf({state.players[i].prestigePoints : i \in all})
        candidates == {i \in all : state.players[i].prestigePoints = maxPoints}
        minCards == MinOf({Len(state.players[i].purchasedCards) : i \in candidates})
        tied == {i \in candidates : Len(state.players[i].purchasedCards) = minCards}
    IN  <<state.players[MinOf(tied)].id>>

determineWinners(state) ==
  IF Len(state.players) = 0 THEN <<>>
  ELSE
    LET all == 1..Len(state.players)
        maxPoints == MaxOf({state.players[i].prestigePoints : i \in all})
        candidates == {i \in all : state.players[i].prestigePoints = maxPoints}
        minCards == MinOf({Len(state.players[i].purchasedCards) : i \in candidates})
        tied == {i \in candidates : Len(state.players[i].purchasedCards) = minCards}
        keep == IF Cardinality(candidates) = 1 THEN candidates ELSE tied
    IN  Ids(FilterSeq(state.players, {state.players[i] : i \in keep}))

\* Fault variant of checkGameEnd: the phase is set but the winners are not
\* computed.
checkGameEnd_winnersLeftEmpty(state) ==
  IF state.phase # "final_round" THEN state
  ELSE [state EXCEPT !.phase = "ended"]

checkGameEnd(state) ==
  IF state.phase # "final_round" THEN state
  ELSE [state EXCEPT !.phase = "ended", !.winners = determineWinners(state)]

\* Fault variant of checkGameEndTrigger: the game ends at the trigger, without
\* a final round.
checkGameEndTrigger_endedAtOnce(state) ==
  IF state.phase = "final_round" \/ state.phase = "ended" THEN state
  ELSE LET over == {i \in 1..Len(state.players) :
                      state.players[i].prestigePoints >= WINNING_POINTS}
       IN  IF over = {} THEN state
           ELSE [state EXCEPT
                   !.endGameTriggeredBy =
                      state.players[CHOOSE i \in over : \A j \in over : i <= j].id,
                   !.phase = "ended",
                   !.winners = determineWinners(state)]

\* Fault variant of checkGameEndTrigger: the triggering player is recorded but
\* the phase is left as it was.
checkGameEndTrigger_phaseKept(state) ==
  IF state.phase = "final_round" \/ state.phase = "ended" THEN state
  ELSE LET over == {i \in 1..Len(state.players) :
                      state.players[i].prestigePoints >= WINNING_POINTS}
       IN  IF over = {} THEN state
           ELSE [state EXCEPT
                   !.endGameTriggeredBy =
                      state.players[CHOOSE i \in over : \A j \in over : i <= j].id]

checkGameEndTrigger(state) ==
  IF state.phase = "final_round" \/ state.phase = "ended" THEN state
  ELSE LET over == {i \in 1..Len(state.players) :
                      state.players[i].prestigePoints >= WINNING_POINTS}
       IN  IF over = {} THEN state
           ELSE [state EXCEPT
                   !.endGameTriggeredBy =
                      state.players[CHOOSE i \in over : \A j \in over : i <= j].id,
                   !.phase = "final_round"]

\* Fault variant of advanceTurn: the round is counted on every advance, not
\* only when the index wraps to 0.
advanceTurn_roundEveryTurn(state) ==
  IF state.phase = "ended" THEN state
  ELSE LET next == (state.currentPlayerIndex + 1) % Len(state.players)
           counted == [state EXCEPT !.currentPlayerIndex = next, !.round = @ + 1]
       IN  IF next = 0 /\ counted.phase = "final_round" THEN checkGameEnd(counted)
           ELSE counted

\* Fault variant of advanceTurn: in the final round the game is finalised on
\* every advance, not only when the index wraps to 0.
advanceTurn_finalisedEveryAdvance(state) ==
  IF state.phase = "ended" THEN state
  ELSE LET next == (state.currentPlayerIndex + 1) % Len(state.players)
           moved == [state EXCEPT !.currentPlayerIndex = next,
                                  !.round = IF next = 0 THEN @ + 1 ELSE @]
       IN  IF moved.phase = "final_round" THEN checkGameEnd(moved) ELSE moved

advanceTurn(state) ==
  IF state.phase = "ended" THEN state
  ELSE LET next == (state.currentPlayerIndex + 1) % Len(state.players)
           moved == [state EXCEPT !.currentPlayerIndex = next]
       IN  IF next = 0
           THEN LET counted == [moved EXCEPT !.round = moved.round + 1]
                IN  IF counted.phase = "final_round" THEN checkGameEnd(counted)
                    ELSE counted
           ELSE moved

checkGameEndAndAdvance(state) == advanceTurn(checkGameEndTrigger(state))

\* Fault variant of AwardNoble: the noble changes hands but its prestige is
\* not added to the player's stored total.
AwardNoble_prestigeKept(state, playerId, nobleId) ==
  LET idx == PlayerIdx(state, playerId)
      nobleIndex == IndexOf(state.nobles, nobleId)
  IN  [state EXCEPT
         !.nobles = RemoveAt(state.nobles, nobleIndex),
         !.players[idx].nobles = Append(@, nobleId)]

\* moves the noble from the pool to the player and adds its prestige
AwardNoble(state, playerId, nobleId) ==
  LET idx == PlayerIdx(state, playerId)
      nobleIndex == IndexOf(state.nobles, nobleId)
  IN  [state EXCEPT
         !.nobles = RemoveAt(state.nobles, nobleIndex),
         !.players[idx].nobles = Append(@, nobleId),
         !.players[idx].prestigePoints = @ + findNobleById(nobleId).prestigePoints]

\* Fault variant of checkNobleAndAdvance: with several eligible nobles the
\* first is awarded instead of waiting for the player's choice.
checkNobleAndAdvance_firstOfMany(state, playerId) ==
  LET eligibleNobleIds == getEligibleNobles(state, playerId)
  IN  IF Len(eligibleNobleIds) >= 1
      THEN checkGameEndAndAdvance(AwardNoble(state, playerId, eligibleNobleIds[1]))
      ELSE checkGameEndAndAdvance(state)

checkNobleAndAdvance(state, playerId) ==
  LET AwardOrAsk(eligibleNobleIds) ==
        IF Len(eligibleNobleIds) = 1
        THEN checkGameEndAndAdvance(AwardNoble(state, playerId, eligibleNobleIds[1]))
        ELSE IF Len(eligibleNobleIds) > 1
             THEN [state EXCEPT !.pendingNobleSelection = playerId]
             ELSE checkGameEndAndAdvance(state)
  IN  AwardOrAsk(getEligibleNobles(state, playerId))

\* Fault variant of finishTurn: the discard flag is set but the noble check and
\* the turn advance still run.
finishTurn_discardNotBlocking(state, playerId) ==
  LET player == getPlayerById(state, playerId)
      totalGems == player.gems.emerald + player.gems.diamond + player.gems.sapphire +
                   player.gems.onyx + player.gems.ruby + player.gems.gold
  IN  IF totalGems > MAX_GEMS
      THEN checkNobleAndAdvance([state EXCEPT !.pendingGemDiscard = playerId], playerId)
      ELSE checkNobleAndAdvance(state, playerId)

finishTurn(state, playerId) ==
  LET player == getPlayerById(state, playerId)
      totalGems == player.gems.emerald + player.gems.diamond + player.gems.sapphire +
                   player.gems.onyx + player.gems.ruby + player.gems.gold
  IN  IF totalGems > MAX_GEMS
      THEN [state EXCEPT !.pendingGemDiscard = playerId]
      ELSE checkNobleAndAdvance(state, playerId)

\* Fault variant of calculatePayment: the card's printed cost is paid, the
\* player's bonuses are not deducted.
calculatePayment_bonusIgnored(state, playerId, cardId) ==
  IF PlayerIdx(state, playerId) = 0 THEN [null |-> TRUE]
  ELSE
    LET Split(player, effectiveCost) ==
          IF effectiveCost.null THEN [null |-> TRUE]
          ELSE
            LET printed == findCardById(cardId).cost
                payment == [c \in Colors |->
                   IF printed[c] <= player.gems[c] THEN printed[c] ELSE player.gems[c]]
                rest == [c \in Colors |->
                   IF printed[c] <= player.gems[c] THEN 0 ELSE printed[c] - player.gems[c]]
                goldNeeded == SumOver(GEM_COLORS, rest)
            IN  IF goldNeeded > player.gems.gold THEN [null |-> TRUE]
                ELSE [null |-> FALSE, gems |-> payment, gold |-> goldNeeded]
    IN  Split(getPlayerById(state, playerId),
              calculateEffectiveCost(state, playerId, cardId))

\* null when the player or card is missing or the gold does not cover the rest
calculatePayment(state, playerId, cardId) ==
  IF PlayerIdx(state, playerId) = 0 THEN [null |-> TRUE]
  ELSE
    LET Split(player, effectiveCost) ==
          IF effectiveCost.null THEN [null |-> TRUE]
          ELSE
            LET payment == [c \in Colors |->
                   IF effectiveCost.value[c] <= player.gems[c]
                   THEN effectiveCost.value[c] ELSE player.gems[c]]
                rest == [c \in Colors |->
                   IF effectiveCost.value[c] <= player.gems[c]
                   THEN 0 ELSE effectiveCost.value[c] - player.gems[c]]
                goldNeeded == SumOver(GEM_COLORS, rest)
            IN  IF goldNeeded > player.gems.gold THEN [null |-> TRUE]
                ELSE [null |-> FALSE, gems |-> payment, gold |-> goldNeeded]
    IN  Split(getPlayerById(state, playerId),
              calculateEffectiveCost(state, playerId, cardId))

\* ---------------------------------------------------------------------------
\* actions.ts : action handlers.  A handler returns the new state, or the
\* message of the error it throws.
\* ---------------------------------------------------------------------------
Returns(state) == [threw |-> UNDEFINED, state |-> state]

Throws(message, state) == [threw |-> message, state |-> state]

applyTakeThreeGems(state, action) ==
  LET newState == cloneGameState(state)
      idx == PlayerIdx(newState, action.playerId)
      taken == [newState EXCEPT
        !.bank = [g \in GemTypes |-> @[g] - Count(action.gems, g)],
        !.players[idx].gems = [g \in GemTypes |-> @[g] + Count(action.gems, g)]]
  IN  Returns(finishTurn(taken, action.playerId))

applyTakeTwoGems(state, action) ==
  LET newState == cloneGameState(state)
      idx == PlayerIdx(newState, action.playerId)
      taken == [newState EXCEPT
        !.bank[action.gem] = @ - 2,
        !.players[idx].gems[action.gem] = @ + 2]
  IN  Returns(finishTurn(taken, action.playerId))

\* Fault variant of GiveGold: the player receives the gold but the bank keeps
\* its count.
GiveGold_bankUntouched(state, idx) ==
  IF state.bank.gold > 0
  THEN [state EXCEPT !.players[idx].gems.gold = @ + 1]
  ELSE state

\* Fault variant of GiveGold: the gold is handed over without looking at the
\* bank's count.
GiveGold_emptyBankIgnored(state, idx) ==
  [state EXCEPT !.bank.gold = @ - 1, !.players[idx].gems.gold = @ + 1]

\* the gold of a reservation, when the bank has any
GiveGold(state, idx) ==
  IF state.bank.gold > 0
  THEN [state EXCEPT !.bank.gold = @ - 1, !.players[idx].gems.gold = @ + 1]
  ELSE state

applyReserveCard(state, action) ==
  LET newState == cloneGameState(state)
      idx == PlayerIdx(newState, action.playerId)
      \* the market branch: the card is removed and its slot refilled
      FromMarket(removed) ==
        IF removed.card # UNDEFINED
        THEN [card |-> removed.card,
              state |-> refillMarketSlot(removed.state, findCardById(removed.card).tier)]
        ELSE [card |-> UNDEFINED, state |-> removed.state]
      \* the blind branch: deck.shift()
      FromDeck(deck) ==
        IF Len(deck) > 0
        THEN [card |-> Head(deck),
              state |-> [newState EXCEPT !.decks[action.tier] = Tail(deck)]]
        ELSE [card |-> UNDEFINED, state |-> newState]
      Hold(took) ==
        IF took.card # UNDEFINED
        THEN [took.state EXCEPT !.players[idx].reservedCards = Append(@, took.card)]
        ELSE took.state
      taken == IF action.cardId # NULL
               THEN FromMarket(removeCardFromMarket(newState, action.cardId))
               ELSE FromDeck(getDeckByTierMutable(newState, action.tier))
  IN  Returns(finishTurn(GiveGold(Hold(taken), idx), action.playerId))

applyPurchaseCard(state, action) ==
  LET newState == cloneGameState(state)
      idx == PlayerIdx(newState, action.playerId)
      player == getPlayerById(newState, action.playerId)
      \* removeCardFromMarket, else the splice from player.reservedCards
      Take(removed, reservedIndex) ==
        IF removed.card # UNDEFINED
        THEN [found |-> TRUE, fromReserved |-> FALSE, state |-> removed.state]
        ELSE IF reservedIndex # 0
        THEN [found |-> TRUE, fromReserved |-> TRUE,
              state |-> [newState EXCEPT
                           !.players[idx].reservedCards = RemoveAt(@, reservedIndex)]]
        ELSE [found |-> FALSE, fromReserved |-> FALSE, state |-> removed.state]
      Pay(taken, payment, card) ==
        [taken EXCEPT
          !.players[idx].gems = [g \in GemTypes |->
              IF g = "gold" THEN @[g] - payment.gold ELSE @[g] - payment.gems[g]],
          !.bank = [g \in GemTypes |->
              IF g = "gold" THEN @[g] + payment.gold ELSE @[g] + payment.gems[g]],
          !.players[idx].purchasedCards = Append(@, action.cardId),
          !.players[idx].bonuses[card.bonus] = @ + 1,
          !.players[idx].prestigePoints = @ + card.prestigePoints]
      Refill(fromReserved, paid, tier) ==
        IF ~fromReserved THEN refillMarketSlot(paid, tier) ELSE paid
      Buy(payment, took, card) ==
        IF payment.null THEN Throws("Cannot afford card", state)
        ELSE IF ~took.found THEN Throws("Card not found", state)
        ELSE Returns(finishTurn(Refill(took.fromReserved,
                                       Pay(took.state, payment, card),
                                       card.tier),
                                action.playerId))
  IN  Buy(calculatePayment(newState, action.playerId, action.cardId),
          Take(removeCardFromMarket(newState, action.cardId),
               IndexOf(player.reservedCards, action.cardId)),
          findCardById(action.cardId))

\* Fault variant of applySelectNoble: the noble is awarded and the flag cleared
\* but the end-game check and the turn advance are left out.
applySelectNoble_turnKept(state, action) ==
  IF IndexOf(state.nobles, action.nobleId) = 0 THEN Throws("Noble not found", state)
  ELSE Returns([AwardNoble(state, action.playerId, action.nobleId)
                  EXCEPT !.pendingNobleSelection = UNDEFINED])

applySelectNoble(state, action) ==
  LET newState == cloneGameState(state)
      nobleIndex == IndexOf(newState.nobles, action.nobleId)
      awarded == AwardNoble(newState, action.playerId, action.nobleId)
      cleared == [awarded EXCEPT !.pendingNobleSelection = UNDEFINED]
  IN  IF nobleIndex = 0 THEN Throws("Noble not found", state)
      ELSE Returns(checkGameEndAndAdvance(cleared))

\* entries with a count of zero or less are skipped
applyDiscardGems(state, action) ==
  LET newState == cloneGameState(state)
      idx == PlayerIdx(newState, action.playerId)
      amount == [g \in GemTypes |->
                   IF g \in DOMAIN action.gems /\ ~(action.gems[g] <= 0)
                   THEN action.gems[g] ELSE 0]
      discarded == [newState EXCEPT
        !.players[idx].gems = [g \in GemTypes |-> @[g] - amount[g]],
        !.bank = [g \in GemTypes |-> @[g] + amount[g]]]
      cleared == [discarded EXCEPT !.pendingGemDiscard = UNDEFINED]
  IN  Returns(checkNobleAndAdvance(cleared, action.playerId))

applyActionUnsafe(state, action) ==
  CASE action.type = "TAKE_THREE_GEMS" -> applyTakeThreeGems(state, action)
    [] action.type = "TAKE_TWO_GEMS" -> applyTakeTwoGems(state, action)
    [] action.type = "RESERVE_CARD" -> applyReserveCard(state, action)
    [] action.type = "PURCHASE_CARD" -> applyPurchaseCard(state, action)
    [] action.type = "SELECT_NOBLE" -> applySelectNoble(state, action)
    [] action.type = "DISCARD_GEMS" -> applyDiscardGems(state, action)
    [] OTHER -> Throws("Invalid action type", state)

applyAction(state, action) ==
  IF ~validateAction(state, action).valid THEN Throws("Invalid action", state)
  ELSE applyActionUnsafe(state, action)

\* ---------------------------------------------------------------------------
\* The embedding layer: one GameState per game, replaced by the result of
\* every applyAction call that returns.
\* ---------------------------------------------------------------------------
VARIABLES
  state,       \* the GameState the embedder holds
  lastAction,  \* the action of the last applyAction call that returned
  steps,       \* number of applyAction calls that returned
  room,        \* the GameRoom of the backend; NULL where the engine is driven directly
  socketData   \* socket.data of every socket; NULL where the engine is driven directly

vars == <<state, lastAction, steps, room, socketData>>

\* config.playerCount and the playerInfos handed to createGame
PlayerInfos == <<"p1", "p2">>

PlayerIds == Range(PlayerInfos)

\* --- the action payloads the players submit ---
TakeThreeInputs == { <<"emerald", "diamond", "sapphire">> }

TakeTwoInputs == { "ruby" }

ReserveInputs == { [cardId |-> NULL, tier |-> 1] }

PurchaseInputs == CardIds

SelectInputs == NobleIds

\* partial gem mappings with at most two entries, counts from -1 to 3
DiscardInputs ==
  UNION { [D -> (-1)..3] : D \in {E \in SUBSET GemTypes : Cardinality(E) <= 2} }

TakeThree(p, gems) == [type |-> "TAKE_THREE_GEMS", playerId |-> p, gems |-> gems]

TakeTwo(p, gem) == [type |-> "TAKE_TWO_GEMS", playerId |-> p, gem |-> gem]

Reserve(p, cardId, tier) ==
  [type |-> "RESERVE_CARD", playerId |-> p, cardId |-> cardId, tier |-> tier]

Purchase(p, cardId) == [type |-> "PURCHASE_CARD", playerId |-> p, cardId |-> cardId]

SelectNoble(p, nobleId) == [type |-> "SELECT_NOBLE", playerId |-> p, nobleId |-> nobleId]

Discard(p, gems) == [type |-> "DISCARD_GEMS", playerId |-> p, gems |-> gems]

NoAction == [type |-> "NONE", playerId |-> UNDEFINED]

Init ==
  /\ \E randomFn \in RandomSources :
        state = createGame(Len(PlayerInfos), PlayerInfos, randomFn)
  /\ lastAction = NoAction
  /\ steps = 0
  /\ room = NULL
  /\ socketData = NULL

\* one applyAction call that returns: the embedder stores the new state
Submit(action) ==
  /\ LET Store(result) == /\ result.threw = UNDEFINED
                            /\ state' = result.state
     IN  Store(applyAction(state, action))
  /\ lastAction' = [type |-> action.type, playerId |-> action.playerId]
  /\ steps' = steps + 1
  /\ UNCHANGED <<room, socketData>>

TakeThreeGems ==
  \E p \in PlayerIds, gems \in TakeThreeInputs :
     /\ steps < MaxSteps
     /\ Submit(TakeThree(p, gems))

TakeTwoGems ==
  \E p \in PlayerIds, gem \in TakeTwoInputs :
     /\ steps < MaxSteps
     /\ Submit(TakeTwo(p, gem))

ReserveCard ==
  \E p \in PlayerIds, r \in ReserveInputs :
     /\ steps < MaxSteps
     /\ Submit(Reserve(p, r.cardId, r.tier))

PurchaseCard ==
  \E p \in PlayerIds, cardId \in PurchaseInputs :
     /\ steps < MaxSteps
     /\ Submit(Purchase(p, cardId))

SelectNobleAction ==
  \E p \in PlayerIds, nobleId \in SelectInputs :
     /\ steps < MaxSteps
     /\ Submit(SelectNoble(p, nobleId))

\* the client offers the discard only to a player over the limit
DiscardGems ==
  \E p \in PlayerIds :
     /\ steps < MaxSteps
     /\ needsToDiscardGems(state, p)
     /\ \E gems \in DiscardInputs : Submit(Discard(p, gems))

Next ==
  \/ TakeThreeGems
  \/ TakeTwoGems
  \/ ReserveCard
  \/ PurchaseCard
  \/ SelectNobleAction
  \/ DiscardGems

Spec == Init /\ [][Next]_vars

\* --- the same calls explored one accepted action further, to the end of the
\* game: the final round and the finalisation at the wrap to index 0 ---
TakeThreeGemsToEnd ==
  \E p \in PlayerIds, gems \in TakeThreeInputs :
     /\ steps < MaxEndgameSteps
     /\ Submit(TakeThree(p, gems))

TakeTwoGemsToEnd ==
  \E p \in PlayerIds, gem \in TakeTwoInputs :
     /\ steps < MaxEndgameSteps
     /\ Submit(TakeTwo(p, gem))

ReserveCardToEnd ==
  \E p \in PlayerIds, r \in ReserveInputs :
     /\ steps < MaxEndgameSteps
     /\ Submit(Reserve(p, r.cardId, r.tier))

PurchaseCardToEnd ==
  \E p \in PlayerIds, cardId \in PurchaseInputs :
     /\ steps < MaxEndgameSteps
     /\ Submit(Purchase(p, cardId))

SelectNobleToEnd ==
  \E p \in PlayerIds, nobleId \in SelectInputs :
     /\ steps < MaxEndgameSteps
     /\ Submit(SelectNoble(p, nobleId))

DiscardGemsToEnd ==
  \E p \in PlayerIds :
     /\ steps < MaxEndgameSteps
     /\ needsToDiscardGems(state, p)
     /\ \E gems \in DiscardInputs : Submit(Discard(p, gems))

NextToEnd ==
  \/ TakeThreeGemsToEnd
  \/ TakeTwoGemsToEnd
  \/ ReserveCardToEnd
  \/ PurchaseCardToEnd
  \/ SelectNobleToEnd
  \/ DiscardGemsToEnd

SpecToEnd == Init /\ [][NextToEnd]_vars

\* --- games of reservations and purchases: cards are reserved face-up from
\* the market and blind from each tier's deck, and bought from the market and
\* from the reserved cards, paid with the gold the reservations bring ---
ReserveMarketInputs == { "t1_d01", "t2_d01", "t3_d01" }

ReserveDeckInputs == {1, 2, 3}

ReserveMarketCard ==
  \E p \in PlayerIds, cardId \in ReserveMarketInputs :
     /\ steps < MaxZoneSteps
     /\ Submit(Reserve(p, cardId, findCardById(cardId).tier))

ReserveDeckCard ==
  \E p \in PlayerIds, tier \in ReserveDeckInputs :
     /\ steps < MaxZoneSteps
     /\ Submit(Reserve(p, NULL, tier))

PurchaseHeldCard ==
  \E p \in PlayerIds, cardId \in PurchaseInputs :
     /\ steps < MaxZoneSteps
     /\ Submit(Purchase(p, cardId))

NextZones ==
  \/ ReserveMarketCard
  \/ ReserveDeckCard
  \/ PurchaseHeldCard

SpecZones == Init /\ [][NextZones]_vars

\* ---------------------------------------------------------------------------
\* The end-of-turn pipeline on drawn standings.  checkGameEndTrigger,
\* advanceTurn, checkGameEnd and determineWinners read only the phase, the
\* index, the round and each player's prestigePoints and number of purchased
\* cards: these are drawn from small sets for a three-player game, so that
\* ties on prestige and on cards occur, and the pipeline is applied to them.
\* ---------------------------------------------------------------------------
TablePlayerInfos == <<"p1", "p2", "p3">>

PrestigeDraws == {14, 15, 16}

CardCountDraws == {3, 4}

\* the game with the drawn standings, at the end of the turn of the player at
\* the drawn index
Standings(game, points, cards, index) ==
  [game EXCEPT
     !.players = [i \in 1..Len(game.players) |->
                    [game.players[i] EXCEPT
                       !.prestigePoints = points[i],
                       !.purchasedCards = SubSeq(Ids(getAllCards), 1, cards[i])]],
     !.currentPlayerIndex = index]

TableInit ==
  /\ \E randomFn \in RandomSources,
        points \in [1..Len(TablePlayerInfos) -> PrestigeDraws],
        cards \in [1..Len(TablePlayerInfos) -> CardCountDraws],
        index \in 0..(Len(TablePlayerInfos) - 1) :
        state = Standings(createGame(Len(TablePlayerInfos), TablePlayerInfos, randomFn),
                          points, cards, index)
  /\ lastAction = NoAction
  /\ steps = 0
  /\ room = NULL
  /\ socketData = NULL

\* the end of a turn: checkGameEndAndAdvance, as every handler calls it
EndOfTurn ==
  /\ steps < MaxTableTurns
  /\ isGameInProgress(state)
  /\ state' = checkGameEndAndAdvance(state)
  /\ steps' = steps + 1
  /\ UNCHANGED <<lastAction, room, socketData>>

SpecTable == TableInit /\ [][EndOfTurn]_vars

\* ---------------------------------------------------------------------------
\* A game in which nobody purchases: p1 collects diamond and sapphire, p2
\* collects emerald, onyx and ruby, both reserve cards of the market, and a
\* player over the limit returns gold.  Every behaviour is a behaviour of
\* applyAction on a fresh game; the inputs are narrowed to this plan so that
\* the game can be followed until the bank is dry.
\* ---------------------------------------------------------------------------
DryTakeThree ==
  \E take \in { [playerId |-> "p1", gems |-> <<"diamond", "sapphire", "onyx">>],
                [playerId |-> "p1", gems |-> <<"diamond", "sapphire", "ruby">>],
                [playerId |-> "p1", gems |-> <<"diamond", "sapphire">>],
                [playerId |-> "p2", gems |-> <<"emerald", "onyx", "ruby">>],
                [playerId |-> "p2", gems |-> <<"emerald">>] } :
     /\ steps < MaxDrySteps
     /\ Submit(TakeThree(take.playerId, take.gems))

DryReserve ==
  \E reserve \in { [playerId |-> "p1", cardId |-> "t1_s01", tier |-> 1],
                   [playerId |-> "p2", cardId |-> "t2_s01", tier |-> 2],
                   [playerId |-> "p2", cardId |-> "t2_e01", tier |-> 2],
                   [playerId |-> "p2", cardId |-> "t2_r01", tier |-> 2] } :
     /\ steps < MaxDrySteps
     /\ Submit(Reserve(reserve.playerId, reserve.cardId, reserve.tier))

DryDiscard ==
  \E p \in PlayerIds, count \in 1..3 :
     /\ steps < MaxDrySteps
     /\ Submit(Discard(p, [g \in {"gold"} |-> count]))

NextDry ==
  \/ DryTakeThree
  \/ DryReserve
  \/ DryDiscard

SpecDry == Init /\ [][NextDry]_vars

\* ---------------------------------------------------------------------------
\* A noble selection left pending late in the game.  As the game-end tests do,
\* the standings are set on the state createGame returns: prestige and bonuses
\* are drawn, and the state is the one checkNobleAndAdvance leaves when the
\* current player has just purchased a card and is eligible for two nobles
\* (the flag names the player, the end-game check has not run).  The players
\* then submit noble selections and gem takes.
\* ---------------------------------------------------------------------------
LateBonusDraws ==
  { emptyGems, cost([emerald |-> 1]),
    cost([emerald |-> 1, diamond |-> 1, sapphire |-> 1]) }

LateStandings(game, points, bonuses) ==
  [game EXCEPT
     !.players = [i \in 1..Len(game.players) |->
                    [game.players[i] EXCEPT !.prestigePoints = points[i],
                                            !.bonuses = bonuses[i]]],
     !.pendingNobleSelection = game.players[game.currentPlayerIndex + 1].id]

LateInit ==
  /\ \E randomFn \in RandomSources,
        points \in [1..Len(PlayerInfos) -> {11, 12, 15}],
        bonuses \in [1..Len(PlayerInfos) -> LateBonusDraws] :
        /\ state = LateStandings(createGame(Len(PlayerInfos), PlayerInfos, randomFn),
                                 points, bonuses)
        /\ Len(getEligibleNobles(state, getCurrentPlayer(state).id)) > 1
        /\ \A i \in 1..Len(state.players) :
              i # state.currentPlayerIndex + 1
                => state.players[i].prestigePoints < WINNING_POINTS
  /\ lastAction = NoAction
  /\ steps = 0
  /\ room = NULL
  /\ socketData = NULL

LateSelectNoble ==
  \E p \in PlayerIds, nobleId \in SelectInputs :
     /\ steps < MaxLateSteps
     /\ Submit(SelectNoble(p, nobleId))

LateTakeThree ==
  \E p \in PlayerIds, gems \in TakeThreeInputs :
     /\ steps < MaxLateSteps
     /\ Submit(TakeThree(p, gems))

NextLate ==
  \/ LateSelectNoble
  \/ LateTakeThree

SpecLate == LateInit /\ [][NextLate]_vars

\* ---------------------------------------------------------------------------
\* createGame on drawn inputs: a configured player count of 2, 3 or 4, a list
\* of that many distinct players in any order, and a random source.  The first
\* action of the game is then submitted by any of the seated players.
\* ---------------------------------------------------------------------------
SeatIds == {"p1", "p2", "p3", "p4"}

PlayerCounts == {2, 3, 4}

\* the playerInfos lists of the given length: distinct ids in any order
PlayerInfoLists(playerCount) ==
  {infos \in [1..playerCount -> SeatIds] :
     \A i, j \in 1..playerCount : i # j => infos[i] # infos[j]}

CreateInit ==
  /\ \E playerCount \in PlayerCounts, randomFn \in RandomSources :
        \E playerInfos \in PlayerInfoLists(playerCount) :
           state = createGame(playerCount, playerInfos, randomFn)
  /\ lastAction = NoAction
  /\ steps = 0
  /\ room = NULL
  /\ socketData = NULL

FirstTakeThree ==
  \E p \in SeatIds, gems \in TakeThreeInputs :
     /\ steps < MaxCreateSteps
     /\ Submit(TakeThree(p, gems))

FirstTakeTwo ==
  \E p \in SeatIds, gem \in TakeTwoInputs :
     /\ steps < MaxCreateSteps
     /\ Submit(TakeTwo(p, gem))

NextCreate ==
  \/ FirstTakeThree
  \/ FirstTakeTwo

SpecCreate == CreateInit /\ [][NextCreate]_vars

\* ---------------------------------------------------------------------------
\* The backend: one room of the room manager, the game controller and the
\* socket handlers.  The field gameState of the room is NULL until the game is
\* started and then refers to the variable state, which holds the GameState;
\* names, the config copy and the activity timestamps of the room are not read
\* by any branch and are left out.
\* ---------------------------------------------------------------------------
ROOM_ID == "ROOM"

SocketIds == {"s1", "s2", "s3"}

\* generatePlayerId(): an id no other socket is given
generatePlayerId(socketId) ==
  CASE socketId = "s1" -> "u1" [] socketId = "s2" -> "u2" [] socketId = "s3" -> "u3"

UserIds == {generatePlayerId(s) : s \in SocketIds}

RoomPlayer(id, socketId, asSpectator) ==
  [id |-> id, socketId |-> socketId, status |-> "connected", isSpectator |-> asSpectator]

createRoom(hostId, hostSocketId) ==
  [id |-> ROOM_ID,
   status |-> "lobby",
   hostId |-> hostId,
   players |-> << RoomPlayer(hostId, hostSocketId, FALSE) >>,
   gameState |-> NULL]

\* room.players.findIndex(p => p.id === playerId), 1-based; 0 when absent
RoomPlayerIdx(r, playerId) ==
  LET hits == {i \in 1..Len(r.players) : r.players[i].id = playerId}
  IN  IF hits = {} THEN 0 ELSE CHOOSE i \in hits : \A j \in hits : i <= j

\* joinRoom for the id of the stored room: the room joined, or the error and
\* the room as it was
joinRoom(r, playerId, socketId, asSpectator) ==
  IF r.status = "playing" /\ ~asSpectator
  THEN [error |-> "Game already in progress. You can only join as a spectator.", room |-> r]
  ELSE IF r.status = "ended" THEN [error |-> "Game has ended", room |-> r]
  ELSE IF RoomPlayerIdx(r, playerId) # 0
  THEN [error |-> UNDEFINED,
        room |-> [r EXCEPT !.players[RoomPlayerIdx(r, playerId)].socketId = socketId,
                           !.players[RoomPlayerIdx(r, playerId)].status = "connected"]]
  ELSE IF ~asSpectator
          /\ Cardinality({i \in 1..Len(r.players) : ~r.players[i].isSpectator}) >= 4
  THEN [error |-> "Room is full (max 4 players)", room |-> r]
  ELSE [error |-> UNDEFINED,
        room |-> [r EXCEPT !.players = Append(@, RoomPlayer(playerId, socketId, asSpectator))]]

\* updatePlayerStatus with socketId undefined, as the disconnect handler calls
\* it; the room is returned unchanged when the player is not found
updatePlayerStatus(r, playerId, status) ==
  IF RoomPlayerIdx(r, playerId) = 0 THEN r
  ELSE [r EXCEPT !.players[RoomPlayerIdx(r, playerId)].status = status]

updateRoomStatus(r, status) == [r EXCEPT !.status = status]

\* setGameState: the room refers to the GameState stored in the variable state
setGameState(r) == [r EXCEPT !.gameState = "state"]

\* startGame, with the random source createGame draws from
startGame(r, playerCount, randomFn) ==
  LET seated == {i \in 1..Len(r.players) : ~r.players[i].isSpectator}
      players == FilterSeq([i \in 1..Len(r.players) |-> r.players[i].id],
                           {r.players[i].id : i \in seated})
  IN  IF r.status # "lobby" \/ Len(players) # playerCount
      THEN [success |-> FALSE, room |-> r, state |-> NULL]
      ELSE [success |-> TRUE,
            room |-> updateRoomStatus(setGameState(r), "playing"),
            state |-> createGame(playerCount, players, randomFn)]

\* processAction: its _playerId parameter is not read
processAction(r, gameState, action) ==
  IF r.gameState = NULL \/ r.status # "playing"
  THEN [success |-> FALSE, room |-> r, state |-> gameState]
  ELSE IF ~validateAction(gameState, action).valid
  THEN [success |-> FALSE, room |-> r, state |-> gameState]
  ELSE LET Stored(newState) ==
             [success |-> TRUE,
              room |-> IF newState.phase = "ended"
                       THEN updateRoomStatus(setGameState(r), "ended")
                       ELSE setGameState(r),
              state |-> newState]
       IN  Stored(applyAction(gameState, action).state)

NoSocketData == [connected |-> TRUE, playerId |-> UNDEFINED, roomId |-> UNDEFINED]

\* the host has created the room on socket s1; the other sockets are connected
ServerInit ==
  /\ room = createRoom(generatePlayerId("s1"), "s1")
  /\ socketData = [s \in SocketIds |->
                     IF s = "s1"
                     THEN [connected |-> TRUE, playerId |-> generatePlayerId("s1"),
                           roomId |-> ROOM_ID]
                     ELSE NoSocketData]
  /\ state = NULL
  /\ lastAction = NoAction
  /\ steps = 0

\* socket.on('room:join'): an error is answered to the caller and changes nothing
RoomJoin ==
  \E s \in SocketIds, asSpectator \in BOOLEAN :
     /\ steps < MaxServerSteps
     /\ socketData[s].connected
     /\ LET playerId == IF socketData[s].playerId # UNDEFINED
                        THEN socketData[s].playerId ELSE generatePlayerId(s)
            result == joinRoom(room, playerId, s, asSpectator)
        IN  /\ result.error = UNDEFINED
            /\ room' = result.room
            /\ socketData' = [socketData EXCEPT ![s].playerId = playerId,
                                                ![s].roomId = ROOM_ID]
     /\ lastAction' = [type |-> "room:join", playerId |-> socketData'[s].playerId]
     /\ steps' = steps + 1
     /\ UNCHANGED state

\* socket.on('room:start')
RoomStart ==
  \E s \in SocketIds, playerCount \in {2, 3}, randomFn \in RandomSources :
     /\ steps < MaxServerSteps
     /\ socketData[s].connected
     /\ socketData[s].roomId # UNDEFINED
     /\ socketData[s].playerId # UNDEFINED
     /\ room.hostId = socketData[s].playerId
     /\ LET result == startGame(room, playerCount, randomFn)
        IN  /\ result.success
            /\ room' = result.room
            /\ state' = result.state
     /\ lastAction' = [type |-> "room:start", playerId |-> socketData[s].playerId]
     /\ steps' = steps + 1
     /\ UNCHANGED socketData

GameActionInputs ==
  { TakeThree(p, gems) : p \in UserIds, gems \in TakeThreeInputs }
    \cup { TakeTwo(p, gem) : p \in UserIds, gem \in TakeTwoInputs }

\* socket.on('game:action'): data.action is the client's payload; lastAction
\* records the action applied and the player id bound to the socket
GameAction ==
  \E s \in SocketIds, action \in GameActionInputs :
     /\ steps < MaxServerSteps
     /\ socketData[s].connected
     /\ socketData[s].roomId # UNDEFINED
     /\ socketData[s].playerId # UNDEFINED
     /\ LET result == processAction(room, state, action)
        IN  /\ result.success
            /\ room' = result.room
            /\ state' = result.state
     /\ lastAction' = [type |-> action.type, playerId |-> action.playerId,
                       socketPlayerId |-> socketData[s].playerId]
     /\ steps' = steps + 1
     /\ UNCHANGED socketData

\* socket.on('disconnect')
Disconnect ==
  \E s \in SocketIds :
     /\ steps < MaxServerSteps
     /\ socketData[s].connected
     /\ socketData' = [socketData EXCEPT ![s].connected = FALSE]
     /\ room' = IF socketData[s].roomId # UNDEFINED /\ socketData[s].playerId # UNDEFINED
                THEN updatePlayerStatus(room, socketData[s].playerId, "disconnected")
                ELSE room
     /\ lastAction' = [type |-> "disconnect", playerId |-> socketData[s].playerId]
     /\ steps' = steps + 1
     /\ UNCHANGED state

NextServer ==
  \/ RoomJoin
  \/ RoomStart
  \/ GameAction
  \/ Disconnect

SpecServer == ServerInit /\ [][NextServer]_vars

\* ---------------------------------------------------------------------------
\* Shorthands over the current state
\* ---------------------------------------------------------------------------
PlayerSet == 1..Len(state.players)

TotalGems(player) ==
  player.gems.emerald + player.gems.diamond + player.gems.sapphire +
  player.gems.onyx + player.gems.ruby + player.gems.gold

MainActionTypes == {"TAKE_THREE_GEMS", "TAKE_TWO_GEMS", "RESERVE_CARD", "PURCHASE_CARD"}

TypeOK ==
  /\ state.phase \in {"waiting", "playing", "final_round", "ended"}
  /\ state.currentPlayerIndex \in 0..(Len(state.players) - 1)
  /\ steps \in 0..MaxSteps

\* ---------------------------------------------------------------------------
\* Payloads on which validateAction and applyAction are evaluated in every
\* reachable state (a superset of the submitted ones: they include ids that
\* name nothing, gold, repeated colours and over-long lists)
\* ---------------------------------------------------------------------------
ProbePlayerIds == PlayerIds \cup {"p0"}

ProbeCardIds == CardIds \cup {"t0_x00"}

ProbeNobleIds == NobleIds \cup {"noble_00"}

TakeThreeProbes ==
  { <<>>, <<"emerald">>, <<"gold">>, <<"emerald", "emerald">>, <<"diamond", "ruby">>,
    <<"ruby", "gold">>, <<"emerald", "diamond", "sapphire">>, <<"sapphire", "onyx", "ruby">>,
    <<"onyx", "ruby", "gold">>, <<"ruby", "onyx", "ruby">>,
    <<"emerald", "diamond", "sapphire", "onyx">> }

\* validateDiscardGems reads the payload only for a player above the limit
DiscardProbes(p) ==
  IF needsToDiscardGems(state, p) THEN DiscardInputs
  ELSE { <<>>, [g \in {"emerald"} |-> 1] }

\* the player of the current state with the given id (an id of PlayerInfos)
PlayerOf(s, playerId) == s.players[PlayerIdx(s, playerId)]

RECURSIVE CardPoints(_)
CardPoints(cardIds) ==
  IF cardIds = <<>> THEN 0
  ELSE findCardById(Head(cardIds)).prestigePoints + CardPoints(Tail(cardIds))

\* the part of a player's prestige that does not come from purchased cards
NoblePrestige(player) == player.prestigePoints - CardPoints(player.purchasedCards)

RECURSIVE NoblesHeld(_, _)
NoblesHeld(s, i) ==
  IF i = 0 THEN 0 ELSE Len(s.players[i].nobles) + NoblesHeld(s, i - 1)

RECURSIVE GemsHeld(_, _, _)
GemsHeld(s, i, g) ==
  IF i = 0 THEN 0 ELSE s.players[i].gems[g] + GemsHeld(s, i - 1, g)

\* ---------------------------------------------------------------------------
\* C1  Token conservation: in every state reachable from createGame through
\* successful applyAction calls, for each of the six gem types the bank count
\* plus the sum of all players' holdings of that type equals the initial bank
\* count of that type.
\* ---------------------------------------------------------------------------
C1_TokenConservation ==
  \A g \in GemTypes :
     state.bank[g] + GemsHeld(state, Len(state.players), g)
       = createInitialBank(Len(PlayerInfos))[g]

\* a discard has just returned gems to the bank while gold from a reservation
\* and a purchased card are out with the players
C1_Witness ==
  /\ lastAction.type = "DISCARD_GEMS"
  /\ \E i \in PlayerSet : state.players[i].gems.gold > 0
  /\ \E i \in PlayerSet : Len(state.players[i].purchasedCards) > 0

\* ---------------------------------------------------------------------------
\* C2  While pendingGemDiscard or pendingNobleSelection names player p,
\* validateAction rejects every main action (TAKE_THREE_GEMS, TAKE_TWO_GEMS,
\* RESERVE_CARD, PURCHASE_CARD) submitted by p.
\* ---------------------------------------------------------------------------
RejectsMainActions(p) ==
  /\ \A gems \in TakeThreeProbes : ~validateAction(state, TakeThree(p, gems)).valid
  /\ \A gem \in GemTypes : ~validateAction(state, TakeTwo(p, gem)).valid
  /\ \A cardId \in ProbeCardIds : ~validateAction(state, Reserve(p, cardId, 1)).valid
  /\ \A tier \in {1, 2, 3} : ~validateAction(state, Reserve(p, NULL, tier)).valid
  /\ \A cardId \in ProbeCardIds : ~validateAction(state, Purchase(p, cardId)).valid

C2_PendingBlocksMainActions ==
  \A p \in PlayerIds :
     (state.pendingGemDiscard = p \/ state.pendingNobleSelection = p)
       => RejectsMainActions(p)

\* ---------------------------------------------------------------------------
\* C3  Turn monotonicity: whenever a valid main action is applied and the
\* resulting state has no pending sub-flow, currentPlayerIndex in the result is
\* (previous + 1) mod playerCount, and round grows by exactly 1 if the new
\* index is 0 and is unchanged otherwise.
\* ---------------------------------------------------------------------------
C3_TurnMonotonicity ==
  [][ (/\ lastAction'.type \in MainActionTypes
       /\ state'.pendingGemDiscard = UNDEFINED
       /\ state'.pendingNobleSelection = UNDEFINED)
      => /\ state'.currentPlayerIndex
              = (state.currentPlayerIndex + 1) % Len(state.players)
         /\ state'.round = IF state'.currentPlayerIndex = 0
                           THEN state.round + 1 ELSE state.round ]_vars

\* a main action has just wrapped the index to 0 for the second time, no
\* sub-flow pending
C3_Witness ==
  /\ lastAction.type \in MainActionTypes
  /\ state.pendingGemDiscard = UNDEFINED
  /\ state.pendingNobleSelection = UNDEFINED
  /\ state.currentPlayerIndex = 0
  /\ state.round = 3

\* ---------------------------------------------------------------------------
\* C4  Gem limit: in every reachable state a player holding more than 10 gems
\* is the player named by pendingGemDiscard and is still in the turn that took
\* them over the limit (no player begins a turn, or ends a completed turn,
\* with more than 10 gems).
\* ---------------------------------------------------------------------------
C4_GemLimit ==
  \A i \in PlayerSet :
     TotalGems(state.players[i]) > MAX_GEMS
       => /\ state.pendingGemDiscard = state.players[i].id
          /\ state.currentPlayerIndex = i - 1

\* ---------------------------------------------------------------------------
\* C5  Discard closure: for every reachable state and every player p holding
\* more than 10 gems, validateDiscardGems accepts at least one DISCARD_GEMS by
\* p that leaves p with exactly 10 gems, and it rejects every DISCARD_GEMS by p
\* whose amounts would leave p's total different from 10.  What a discard
\* leaves is what applyDiscardGems makes of the player's gems.
\* ---------------------------------------------------------------------------
LeftAfterDiscard(p, gems) ==
  TotalGems(PlayerOf(applyDiscardGems(state, Discard(p, gems)).state, p))

C5_DiscardClosure ==
  \A p \in PlayerIds :
     needsToDiscardGems(state, p)
       => /\ \E gems \in DiscardInputs :
               /\ validateDiscardGems(state, Discard(p, gems)).valid
               /\ LeftAfterDiscard(p, gems) = MAX_GEMS
          /\ \A gems \in DiscardInputs :
               LeftAfterDiscard(p, gems) # MAX_GEMS
                 => ~validateDiscardGems(state, Discard(p, gems)).valid

\* a player holds 12 gems, so that one-gem and three-gem discards are among
\* the rejected ones
C5_Witness ==
  \E i \in PlayerSet : TotalGems(state.players[i]) = 12

\* ---------------------------------------------------------------------------
\* C6  applyAction throws exactly when validateAction rejects: in every
\* reachable state every action that validateAction accepts is applied to
\* completion without reaching a throw inside the transition (card not found,
\* cannot afford, noble not found).
\* ---------------------------------------------------------------------------
ThrowsIffInvalid(action) ==
  (applyAction(state, action).threw # UNDEFINED) <=> ~validateAction(state, action).valid

\* an id that names no player is rejected by every validator before the
\* payload is read: one payload per action type is tried for it
C6_ThrowsIffInvalid ==
  /\ \A p \in PlayerIds :
        /\ \A gems \in TakeThreeProbes : ThrowsIffInvalid(TakeThree(p, gems))
        /\ \A gem \in GemTypes : ThrowsIffInvalid(TakeTwo(p, gem))
        /\ \A cardId \in ProbeCardIds : ThrowsIffInvalid(Reserve(p, cardId, 1))
        /\ \A tier \in {1, 2, 3} : ThrowsIffInvalid(Reserve(p, NULL, tier))
        /\ \A cardId \in ProbeCardIds : ThrowsIffInvalid(Purchase(p, cardId))
        /\ \A nobleId \in ProbeNobleIds : ThrowsIffInvalid(SelectNoble(p, nobleId))
        /\ \A gems \in DiscardProbes(p) : ThrowsIffInvalid(Discard(p, gems))
  /\ \A p \in ProbePlayerIds \ PlayerIds :
        /\ ThrowsIffInvalid(TakeThree(p, <<"emerald", "diamond", "sapphire">>))
        /\ ThrowsIffInvalid(TakeTwo(p, "ruby"))
        /\ ThrowsIffInvalid(Reserve(p, NULL, 1))
        /\ \A cardId \in CardIds : ThrowsIffInvalid(Purchase(p, cardId))
        /\ \A nobleId \in NobleIds : ThrowsIffInvalid(SelectNoble(p, nobleId))
        /\ ThrowsIffInvalid(Discard(p, [g \in {"emerald"} |-> 1]))

\* a purchase paid partly in gold has just been applied, and in the state
\* reached a player can afford one market card and not another
C6_Witness ==
  /\ lastAction.type = "PURCHASE_CARD"
  /\ \E p \in PlayerIds :
        /\ \E c \in CardIds : validateAction(state, Purchase(p, c)).valid
        /\ \E c \in CardIds :
              validateAction(state, Purchase(p, c)).errorCode = "INSUFFICIENT_PAYMENT"

\* ---------------------------------------------------------------------------
\* C8  Afford/shortfall duality as stated, for every player id and card id:
\* canAffordCard(state, p, c) is true if and only if the per-colour values of
\* getCardShortfall(state, p, c) sum to 0.
\* ---------------------------------------------------------------------------
C8_DualityEveryId ==
  \A p \in ProbePlayerIds, c \in ProbeCardIds :
     canAffordCard(state, p, c)
       <=> SumOver(GEM_COLORS, getCardShortfall(state, p, c)) = 0

\* C8 as amended: the duality holds for every player p of the state and every
\* card c that is in the market or among p's reserved cards.
C8_DualityResolvable ==
  \A p \in PlayerIds, c \in CardIds :
     FindMarketOrReserved(state, PlayerOf(state, p), c) # UNDEFINED
       => (canAffordCard(state, p, c)
             <=> SumOver(GEM_COLORS, getCardShortfall(state, p, c)) = 0)

\* a player holding gold can afford one card only thanks to the gold and can
\* not afford another although the gold covers part of its cost
C8_Witness ==
  \E p \in PlayerIds :
     /\ PlayerOf(state, p).gems.gold > 0
     /\ \E c \in CardIds :
           /\ canAffordCard(state, p, c)
           /\ SumOver(GEM_COLORS, getCardShortfall_goldIgnored(state, p, c)) > 0
     /\ \E c \in CardIds :
           /\ ~calculateEffectiveCost(state, p, c).null
           /\ ~canAffordCard(state, p, c)

\* ---------------------------------------------------------------------------
\* C9  When a valid main action leaves the acting player with more than 10
\* gems, the resulting state has pendingGemDiscard equal to the actor's id, and
\* currentPlayerIndex, round, phase, the noble pool and every player's nobles
\* and noble-derived prestige are unchanged by that action.
\* ---------------------------------------------------------------------------
C9_OverLimitStopsTurn ==
  [][ (/\ lastAction'.type \in MainActionTypes
       /\ TotalGems(PlayerOf(state', lastAction'.playerId)) > MAX_GEMS)
      => /\ state'.pendingGemDiscard = lastAction'.playerId
         /\ state'.currentPlayerIndex = state.currentPlayerIndex
         /\ state'.round = state.round
         /\ state'.phase = state.phase
         /\ state'.nobles = state.nobles
         /\ \A i \in PlayerSet :
               /\ state'.players[i].nobles = state.players[i].nobles
               /\ NoblePrestige(state'.players[i]) = NoblePrestige(state.players[i]) ]_vars

\* a main action has just left its actor above the limit while a noble of the
\* pool is satisfied by the actor's bonuses
C9_Witness ==
  /\ lastAction.type \in MainActionTypes
  /\ TotalGems(PlayerOf(state, lastAction.playerId)) > MAX_GEMS
  /\ Len(getEligibleNobles(state, lastAction.playerId)) > 0

\* ---------------------------------------------------------------------------
\* C10  Noble check at the end of a turn (actor at 10 gems or fewer, after a
\* main action or a discard): if exactly one noble of the pool is satisfied by
\* the actor's bonuses it moves from the pool to the actor with +3 prestige and
\* the step sets no pending flag; if more than one is satisfied,
\* pendingNobleSelection is set to the actor, the pool is unchanged and
\* currentPlayerIndex does not change; if none is satisfied nothing is awarded.
\* Hence at most one noble is gained per turn: a step moves at most one noble,
\* and a step that moves one ends the turn.
\* ---------------------------------------------------------------------------
TurnEndTypes == MainActionTypes \cup {"DISCARD_GEMS"}

\* the nobles of the pool before the step that the actor's bonuses after the
\* step satisfy
SatisfiedNobles(before, after, playerId) ==
  {n \in Range(before.nobles) : MeetsRequirements(PlayerOf(after, playerId), n)}

NoFlagNewlySet(before, after) ==
  /\ after.pendingGemDiscard \in {before.pendingGemDiscard, UNDEFINED}
  /\ after.pendingNobleSelection \in {before.pendingNobleSelection, UNDEFINED}

OthersNoblesUnchanged(before, after, playerId) ==
  \A i \in 1..Len(before.players) :
     before.players[i].id # playerId
       => /\ after.players[i].nobles = before.players[i].nobles
          /\ NoblePrestige(after.players[i]) = NoblePrestige(before.players[i])

NobleCheck(before, after, playerId) ==
  LET satisfied == SatisfiedNobles(before, after, playerId)
      actorBefore == PlayerOf(before, playerId)
      actorAfter == PlayerOf(after, playerId)
  IN  /\ OthersNoblesUnchanged(before, after, playerId)
      /\ Cardinality(satisfied) = 1
           => /\ \E n \in satisfied :
                   /\ after.nobles = FilterSeq(before.nobles, Range(before.nobles) \ {n})
                   /\ actorAfter.nobles = Append(actorBefore.nobles, n)
              /\ NoblePrestige(actorAfter) = NoblePrestige(actorBefore) + NOBLE_POINTS
              /\ NoFlagNewlySet(before, after)
      /\ Cardinality(satisfied) > 1
           => /\ after.pendingNobleSelection = playerId
              /\ after.nobles = before.nobles
              /\ after.currentPlayerIndex = before.currentPlayerIndex
              /\ actorAfter.nobles = actorBefore.nobles
              /\ NoblePrestige(actorAfter) = NoblePrestige(actorBefore)
      /\ Cardinality(satisfied) = 0
           => /\ after.nobles = before.nobles
              /\ actorAfter.nobles = actorBefore.nobles
              /\ NoblePrestige(actorAfter) = NoblePrestige(actorBefore)
              /\ NoFlagNewlySet(before, after)

C10_NobleCheck ==
  [][ /\ (/\ lastAction'.type \in TurnEndTypes
          /\ TotalGems(PlayerOf(state', lastAction'.playerId)) <= MAX_GEMS)
         => NobleCheck(state, state', lastAction'.playerId)
      /\ NoblesHeld(state', Len(state'.players))
            <= NoblesHeld(state, Len(state.players)) + 1
      /\ (/\ NoblesHeld(state', Len(state'.players))
                > NoblesHeld(state, Len(state.players))
          /\ state'.phase # "ended")
         => state'.currentPlayerIndex # state.currentPlayerIndex ]_vars

\* a main action has just brought its actor a second noble automatically,
\* the first having come through a selection among several
C10_Witness ==
  /\ lastAction.type \in MainActionTypes
  /\ Len(PlayerOf(state, lastAction.playerId).nobles) = 2
  /\ state.pendingNobleSelection = UNDEFINED

\* ---------------------------------------------------------------------------
\* C11  SELECT_NOBLE is never an independent turn action: in every reachable
\* state validateAction accepts a SELECT_NOBLE from player p only if
\* pendingNobleSelection equals p; while it is unset or names another player
\* every SELECT_NOBLE is rejected.
\* ---------------------------------------------------------------------------
C11_SelectNobleOnlyWhenPending ==
  \A p \in ProbePlayerIds, nobleId \in ProbeNobleIds :
     validateAction(state, SelectNoble(p, nobleId)).valid
       => state.pendingNobleSelection = p

\* ---------------------------------------------------------------------------
\* C12  Sub-flow resolution.  Applying a valid DISCARD_GEMS clears
\* pendingGemDiscard and runs the noble check for the discarding player: with
\* more than one noble eligible pendingNobleSelection is set to that player
\* and the turn does not advance, otherwise the turn advances by one player.
\* Applying a valid SELECT_NOBLE clears pendingNobleSelection, runs the
\* end-game check and advances the turn by one player.
\* ---------------------------------------------------------------------------
NextPlayerIndex(s) == (s.currentPlayerIndex + 1) % Len(s.players)

\* the end-game check has run on the way from before to after
EndGameChecked(before, after) ==
  (/\ before.phase = "playing"
   /\ \E i \in 1..Len(after.players) : after.players[i].prestigePoints >= WINNING_POINTS)
    => /\ after.phase \in {"final_round", "ended"}
       /\ after.endGameTriggeredBy # UNDEFINED

C12_SubFlowResolution ==
  [][ /\ lastAction'.type = "DISCARD_GEMS"
         => /\ state'.pendingGemDiscard = UNDEFINED
            /\ IF Cardinality(SatisfiedNobles(state, state', lastAction'.playerId)) > 1
               THEN /\ state'.pendingNobleSelection = lastAction'.playerId
                    /\ state'.currentPlayerIndex = state.currentPlayerIndex
               ELSE /\ state'.currentPlayerIndex = NextPlayerIndex(state)
                    /\ EndGameChecked(state, state')
      /\ lastAction'.type = "SELECT_NOBLE"
         => /\ state'.pendingNobleSelection = UNDEFINED
            /\ state'.currentPlayerIndex = NextPlayerIndex(state)
            /\ EndGameChecked(state, state') ]_vars

\* a discard has just cleared its flag and surfaced a noble selection for the
\* discarding player
C12_Witness ==
  /\ lastAction.type = "DISCARD_GEMS"
  /\ state.pendingNobleSelection = lastAction.playerId
  /\ state.pendingGemDiscard = UNDEFINED

\* ---------------------------------------------------------------------------
\* C13  End-game trigger: whenever the end-of-turn check runs while phase is
\* 'playing' and some player has 15 prestige points or more, phase becomes
\* 'final_round' and endGameTriggeredBy is set to the first such player in
\* player-list order; once phase is 'final_round' or 'ended',
\* endGameTriggeredBy never changes and phase never returns to 'playing'.
\* The check runs in every call that advances the turn; the advance that
\* follows it in the same call finalises the game when the index wraps to 0.
\* ---------------------------------------------------------------------------
OverThreshold(s) ==
  {i \in 1..Len(s.players) : s.players[i].prestigePoints >= WINNING_POINTS}

FirstOverThreshold(s) == s.players[MinOf(OverThreshold(s))].id

WrapsToZero(before, after) ==
  /\ before.currentPlayerIndex = Len(before.players) - 1
  /\ after.currentPlayerIndex = 0

C14_Finalisation ==
  [][ /\ state.phase = "final_round"
         => (state'.phase = "ended" <=> WrapsToZero(state, state'))
      /\ (state.phase # "ended" /\ state'.phase = "ended")
         => /\ WrapsToZero(state, state')
            /\ state'.winners # <<>>
            /\ state'.winners = determineWinners(state')
      /\ (/\ state.phase = "playing"
          /\ WrapsToZero(state, state')
          /\ OverThreshold(state') # {})
         => state'.phase = "ended" ]_vars

\* the player at the last index has triggered the end game with a main action
\* of their own turn, and the game has ended in that call
C14_Witness ==
  /\ state.phase = "ended"
  /\ state.endGameTriggeredBy = state.players[Len(state.players)].id
  /\ lastAction.playerId = state.endGameTriggeredBy
  /\ lastAction.type \in MainActionTypes

\* ---------------------------------------------------------------------------
\* C15  Equal turns: in every reachable state with phase 'ended' every player
\* has completed the same number of turns, a turn of a player being completed
\* each time currentPlayerIndex advances past that player, for any sequence of
\* accepted actions including the sub-flow actions.
\* TurnsCompleted is 0 for every player after createGame and each step adds 1
\* for exactly the player the index advances past, so it is that number.
\* ---------------------------------------------------------------------------
\* rounds completed, plus one for the players before the current one
TurnsCompleted(s, i) ==
  (s.round - 1) + (IF i - 1 < s.currentPlayerIndex THEN 1 ELSE 0)

C15_EqualTurns ==
  /\ \A i \in PlayerSet : TurnsCompleted(state, i) = 0
  /\ [][ /\ \A i \in PlayerSet :
               TurnsCompleted(state', i)
                 = TurnsCompleted(state, i)
                   + (IF /\ state'.currentPlayerIndex # state.currentPlayerIndex
                         /\ i - 1 = state.currentPlayerIndex
                      THEN 1 ELSE 0)
         /\ state'.phase = "ended"
              => \A i, j \in PlayerSet :
                    TurnsCompleted(state', i) = TurnsCompleted(state', j) ]_vars

\* the game has ended with the resolution of a noble selection after eight
\* accepted actions, each player having completed two turns
C15_Witness ==
  /\ state.phase = "ended"
  /\ lastAction.type = "SELECT_NOBLE"
  /\ steps = 8
  /\ \A i \in PlayerSet : TurnsCompleted(state, i) = 2

\* ---------------------------------------------------------------------------
\* C16  Winner determination: when the game ends, winners is exactly the set
\* of players who have the maximum prestigePoints and, among those, the
\* minimum number of purchasedCards; all players tied on both are included
\* and no other player is, each winner being listed once.
\* ---------------------------------------------------------------------------
TopPrestige(s) ==
  {i \in 1..Len(s.players) :
     \A j \in 1..Len(s.players) : s.players[j].prestigePoints <= s.players[i].prestigePoints}

FewestCardsAmong(s, S) ==
  {i \in S : \A j \in S : Len(s.players[i].purchasedCards) <= Len(s.players[j].purchasedCards)}

ExpectedWinners(s) == {s.players[i].id : i \in FewestCardsAmong(s, TopPrestige(s))}

C16_WinnerDetermination ==
  state.phase = "ended"
    => /\ Range(state.winners) = ExpectedWinners(state)
       /\ Len(state.winners) = Cardinality(ExpectedWinners(state))

\* a game has ended with two winners tied on prestige and on cards while the
\* third player has the same prestige and more cards
C16_Witness ==
  /\ state.phase = "ended"
  /\ Len(state.winners) = 2
  /\ Cardinality(TopPrestige(state)) = 3

\* ---------------------------------------------------------------------------
\* C17  Phase gate: whenever phase is 'waiting' or 'ended', validateAction
\* rejects every action of every type from every player with errorCode
\* GAME_NOT_IN_PROGRESS, so no applyAction succeeds and the state reached when
\* phase became 'ended' is never changed afterwards.  createGame starts in
\* 'playing', so 'waiting' is looked at by setting the phase of the states in
\* which the game has ended, as the validator's test sets it.
\* ---------------------------------------------------------------------------
Gated(s, action) ==
  /\ validateAction(s, action) = Invalid("GAME_NOT_IN_PROGRESS")
  /\ applyAction(s, action).threw # UNDEFINED
  /\ applyAction(s, action).state = s

GatedForAll(s) ==
  \A p \in ProbePlayerIds :
     /\ \A gems \in TakeThreeProbes : Gated(s, TakeThree(p, gems))
     /\ \A gem \in GemTypes : Gated(s, TakeTwo(p, gem))
     /\ \A cardId \in ProbeCardIds : Gated(s, Reserve(p, cardId, 1))
     /\ \A tier \in {1, 2, 3} : Gated(s, Reserve(p, NULL, tier))
     /\ \A cardId \in ProbeCardIds : Gated(s, Purchase(p, cardId))
     /\ \A nobleId \in ProbeNobleIds : Gated(s, SelectNoble(p, nobleId))
     /\ \A gems \in DiscardProbes(p) : Gated(s, Discard(p, gems))

C17_PhaseGate ==
  state.phase = "ended"
    => /\ GatedForAll(state)
       /\ GatedForAll([state EXCEPT !.phase = "waiting"])

\* the game has ended in a state where, were it still in progress, the
\* current player could take three gems and could purchase a card
C17_Witness ==
  /\ state.phase = "ended"
  /\ validateTakeThreeGems(state, TakeThree(getCurrentPlayer(state).id,
                                             <<"emerald", "diamond", "sapphire">>)).valid
  /\ \E cardId \in CardIds :
        validatePurchaseCard(state, Purchase(getCurrentPlayer(state).id, cardId)).valid

\* ---------------------------------------------------------------------------
\* C18  In every reachable state the winners list is non-empty if and only if
\* phase is 'ended'.
\* ---------------------------------------------------------------------------
C18_WinnersIffEnded ==
  (state.winners # <<>>) <=> (state.phase = "ended")

\* the game has ended and the player who triggered the end game is the
\* only winner
C18_Witness ==
  /\ state.phase = "ended"
  /\ state.winners = <<state.endGameTriggeredBy>>

\* ---------------------------------------------------------------------------
\* C19  While the game is in progress, validateTakeThreeGems accepts a
\* TAKE_THREE_GEMS action if and only if the requester is the current player
\* and the request names 1, 2 or 3 pairwise-distinct, non-gold colours each
\* with bank count at least 1; otherwise it rejects with the errorCode of the
\* first failing check in the order NOT_PLAYERS_TURN, GEMS_NOT_DISTINCT,
\* CANNOT_TAKE_GOLD, INSUFFICIENT_GEMS_IN_BANK.
\* ---------------------------------------------------------------------------
IsCurrent(s, p) == s.players[s.currentPlayerIndex + 1].id = p

PairwiseDistinct(gems) ==
  \A i, j \in 1..Len(gems) : i # j => gems[i] # gems[j]

NamesGold(gems) == \E i \in 1..Len(gems) : gems[i] = "gold"

BankLacks(s, gems) == \E i \in 1..Len(gems) : s.bank[gems[i]] < 1

TakeThreeAcceptable(s, p, gems) ==
  /\ IsCurrent(s, p)
  /\ Len(gems) \in 1..3
  /\ PairwiseDistinct(gems)
  /\ ~NamesGold(gems)
  /\ ~BankLacks(s, gems)

\* the code of the first failing check of the four the claim lists, "none"
\* when none of the four fails
FirstOfFour(s, p, gems) ==
  IF ~IsCurrent(s, p) THEN "NOT_PLAYERS_TURN"
  ELSE IF ~PairwiseDistinct(gems) THEN "GEMS_NOT_DISTINCT"
  ELSE IF NamesGold(gems) THEN "CANNOT_TAKE_GOLD"
  ELSE IF BankLacks(s, gems) THEN "INSUFFICIENT_GEMS_IN_BANK"
  ELSE "none"

\* the same with the size check of the validator in its place
FirstOfFive(s, p, gems) ==
  IF ~IsCurrent(s, p) THEN "NOT_PLAYERS_TURN"
  ELSE IF Len(gems) \notin 1..3 THEN "INVALID_ACTION"
  ELSE FirstOfFour(s, p, gems)

TakeTwoAcceptable(s, p, gem) ==
  /\ IsCurrent(s, p)
  /\ gem # "gold"
  /\ s.bank[gem] >= 4

\* the state with player p holding the given number of the gem
WithHolding(s, p, gem, held) ==
  IF PlayerIdx(s, p) = 0 THEN s
  ELSE [s EXCEPT !.players[PlayerIdx(s, p)].gems[gem] = held]

C20_TakeTwo ==
  isGameInProgress(state)
    => \A p \in ProbePlayerIds, gem \in GemTypes :
          LET result == validateTakeTwoGems(state, TakeTwo(p, gem))
          IN  /\ result.valid <=> TakeTwoAcceptable(state, p, gem)
              /\ (IsCurrent(state, p) /\ gem # "gold" /\ state.bank[gem] < 4)
                    => result.errorCode = "REQUIRES_FOUR_GEMS_FOR_TWO"
              /\ \A held \in {0, 10} :
                    validateTakeTwoGems(WithHolding(state, p, gem, held),
                                        TakeTwo(p, gem)) = result

\* in a game in progress the bank holds exactly three of one colour and four
\* of another while the current player holds eight gems or more
C20_Witness ==
  /\ isGameInProgress(state)
  /\ \E g \in Colors : state.bank[g] = 3
  /\ \E g \in Colors : state.bank[g] = 4
  /\ TotalGems(getCurrentPlayer(state)) >= 8

\* ---------------------------------------------------------------------------
\* C21  In every reachable state no player holds more than 3 reserved cards:
\* every RESERVE_CARD (a market card or a blind draw of any tier) from a player
\* who already holds 3 reserved cards is rejected, with MAX_RESERVED_CARDS when
\* the request passes the checks made before the limit (the game is in
\* progress and it is that player's turn); and no transition other than that
\* player's own RESERVE_CARD lengthens a reservedCards list, which grows by one
\* card at a time.
\* ---------------------------------------------------------------------------
ReserveProbes(p) ==
  { Reserve(p, cardId, 1) : cardId \in ProbeCardIds }
    \cup { Reserve(p, NULL, tier) : tier \in {1, 2, 3} }

ReservedWithinLimit(s) ==
  \A i \in 1..Len(s.players) :
     /\ Len(s.players[i].reservedCards) <= 3
     /\ Len(s.players[i].reservedCards) = 3
          => \A action \in ReserveProbes(s.players[i].id) :
                /\ ~validateAction(s, action).valid
                /\ (isGameInProgress(s) /\ IsCurrent(s, s.players[i].id))
                     => validateAction(s, action).errorCode = "MAX_RESERVED_CARDS"

ReservedGrowsByReserveOnly(before, after, action) ==
  \A i \in 1..Len(before.players) :
     Len(after.players[i].reservedCards) > Len(before.players[i].reservedCards)
       => /\ action.type = "RESERVE_CARD"
          /\ action.playerId = before.players[i].id
          /\ Len(after.players[i].reservedCards)
               = Len(before.players[i].reservedCards) + 1

ReservedCardOf(s, action) ==
  IF action.cardId # NULL THEN action.cardId ELSE Head(s.decks[action.tier])

GoldMoved(s) == IF s.bank.gold >= 1 THEN 1 ELSE 0

ReserveOutcome(before, after, action) ==
  LET idx == PlayerIdx(before, action.playerId)
  IN  /\ after.bank.gold = before.bank.gold - GoldMoved(before)
      /\ after.players[idx].gems.gold = before.players[idx].gems.gold + GoldMoved(before)
      /\ after.players[idx].reservedCards
           = Append(before.players[idx].reservedCards, ReservedCardOf(before, action))
      /\ \A c \in Colors : after.bank[c] = before.bank[c]
      /\ \A i \in 1..Len(before.players) :
            /\ \A c \in Colors : after.players[i].gems[c] = before.players[i].gems[c]
            /\ i # idx => after.players[i].gems.gold = before.players[i].gems.gold

C22_ReserveGold ==
  \A p \in PlayerIds : \A action \in ReserveProbes(p) :
     validateAction(state, action).valid
       => /\ applyAction(state, action).threw = UNDEFINED
          /\ ReserveOutcome(state, applyAction(state, action).state, action)

\* a reservation has just been applied that found the bank without gold: the
\* player holds 3 reserved cards and the 2 gold of the first two, the other
\* player holds the other 3 gold
C22_Witness ==
  /\ lastAction.type = "RESERVE_CARD"
  /\ state.bank.gold = 0
  /\ \E i \in PlayerSet :
        /\ state.players[i].id = lastAction.playerId
        /\ Len(state.players[i].reservedCards) = 3
        /\ state.players[i].gems.gold = 2

\* ---------------------------------------------------------------------------
\* C23  validatePurchaseCard rejects every PURCHASE_CARD whose card id is
\* neither in a market slot nor in the acting player's own reservedCards, with
\* CARD_NOT_AVAILABLE when the request comes from the current player (the turn
\* check is made first); in particular a card held in another player's
\* reserved list, in a deck, or already purchased can never be purchased.
\* ---------------------------------------------------------------------------
InMarketSlot(s, cardId) ==
  \E t \in {1, 2, 3} : \E i \in 1..Len(s.market[t]) : s.market[t][i] = cardId

ReservedBy(s, i, cardId) ==
  \E k \in 1..Len(s.players[i].reservedCards) : s.players[i].reservedCards[k] = cardId

InOwnReserved(s, p, cardId) ==
  \E i \in 1..Len(s.players) : s.players[i].id = p /\ ReservedBy(s, i, cardId)

InOthersReserved(s, p, cardId) ==
  \E i \in 1..Len(s.players) : s.players[i].id # p /\ ReservedBy(s, i, cardId)

InSomeDeck(s, cardId) ==
  \E t \in {1, 2, 3} : \E k \in 1..Len(s.decks[t]) : s.decks[t][k] = cardId

AlreadyPurchased(s, cardId) ==
  \E i \in 1..Len(s.players) :
     \E k \in 1..Len(s.players[i].purchasedCards) : s.players[i].purchasedCards[k] = cardId

Due(player, cardId) ==
  [c \in Colors |-> Max(0, findCardById(cardId).cost[c] - player.bonuses[c])]

PaidInGems(player, cardId) ==
  [c \in Colors |-> Min(Due(player, cardId)[c], player.gems[c])]

PaidInGold(player, cardId) ==
  SumOver(GEM_COLORS,
          [c \in Colors |-> Due(player, cardId)[c] - PaidInGems(player, cardId)[c]])

\* the purchase of cardId by the player at index idx, between two states
PaymentRule(before, after, idx, cardId) ==
  LET buyer == before.players[idx]
      owner == after.players[idx]
      card == findCardById(cardId)
  IN  /\ \A c \in Colors :
            /\ owner.gems[c] = buyer.gems[c] - PaidInGems(buyer, cardId)[c]
            /\ after.bank[c] = before.bank[c] + PaidInGems(buyer, cardId)[c]
            /\ Due(buyer, cardId)[c] > PaidInGems(buyer, cardId)[c] => owner.gems[c] = 0
            /\ owner.bonuses[c] = buyer.bonuses[c] + (IF c = card.bonus THEN 1 ELSE 0)
      /\ owner.gems.gold = buyer.gems.gold - PaidInGold(buyer, cardId)
      /\ after.bank.gold = before.bank.gold + PaidInGold(buyer, cardId)
      /\ owner.purchasedCards = Append(buyer.purchasedCards, cardId)
      /\ owner.prestigePoints
           = buyer.prestigePoints + card.prestigePoints
               + NOBLE_POINTS * (Len(owner.nobles) - Len(buyer.nobles))
      /\ \A i \in 1..Len(before.players) :
            i # idx => after.players[i].gems = before.players[i].gems

C24_PaymentRule ==
  [][ lastAction'.type = "PURCHASE_CARD"
        => LET idx == PlayerIdx(state, lastAction'.playerId)
               bought == state'.players[idx].purchasedCards
           IN  /\ bought # <<>>
               /\ PaymentRule(state, state', idx, bought[Len(bought)]) ]_vars

\* before a purchase: the current player can buy a card whose cost a bonus
\* reduces, paying part of the rest in gold, and a card paid partly in gems of
\* its colours and partly in gold
C24_Witness ==
  /\ steps < MaxSteps
  /\ \E cardId \in CardIds :
        LET player == getCurrentPlayer(state)
        IN  /\ validateAction(state, Purchase(player.id, cardId)).valid
            /\ \E c \in Colors : Due(player, cardId)[c] < findCardById(cardId).cost[c]
            /\ PaidInGold(player, cardId) > 0
  /\ \E cardId \in CardIds :
        LET player == getCurrentPlayer(state)
        IN  /\ validateAction(state, Purchase(player.id, cardId)).valid
            /\ \E c \in Colors : PaidInGems(player, cardId)[c] > 0
            /\ PaidInGold(player, cardId) > 0

\* ---------------------------------------------------------------------------
\* C25  Card conservation: in every reachable state, every card of the
\* catalogue is in exactly one zone (one tier deck, one market slot, one
\* player's reservedCards, or one player's purchasedCards), so no card id is
\* ever duplicated or lost, and cards only move deck to market, deck or market
\* to reserved, and market or reserved to purchased.
\* ---------------------------------------------------------------------------
RECURSIVE PlacesWithPlayers(_, _, _)
PlacesWithPlayers(s, i, cardId) ==
  IF i = 0 THEN 0
  ELSE Count(s.players[i].reservedCards, cardId)
         + Count(s.players[i].purchasedCards, cardId)
         + PlacesWithPlayers(s, i - 1, cardId)

\* the number of places (deck positions, market slots, entries of reserved
\* and purchased lists) that hold the card
Places(s, cardId) ==
  Count(s.decks[1], cardId) + Count(s.decks[2], cardId) + Count(s.decks[3], cardId)
    + Count(s.market[1], cardId) + Count(s.market[2], cardId) + Count(s.market[3], cardId)
    + PlacesWithPlayers(s, Len(s.players), cardId)

CardsConserved(s) == \A cardId \in CardIds : Places(s, cardId) = 1

ZoneOf(s, cardId) ==
  IF InSomeDeck(s, cardId) THEN "deck"
  ELSE IF InMarketSlot(s, cardId) THEN "market"
  ELSE IF AlreadyPurchased(s, cardId) THEN "purchased"
  ELSE "reserved"

CardMoves ==
  { <<"deck", "market">>, <<"deck", "reserved">>, <<"market", "reserved">>,
    <<"market", "purchased">>, <<"reserved", "purchased">> }

CardsMoveForward(before, after) ==
  \A cardId \in CardIds :
     \/ ZoneOf(after, cardId) = ZoneOf(before, cardId)
     \/ <<ZoneOf(before, cardId), ZoneOf(after, cardId)>> \in CardMoves

C25_CardConservation ==
  /\ CardsConserved(state)
  /\ [][ CardsConserved(state') /\ CardsMoveForward(state, state') ]_vars

\* cards have been reserved and purchased, the tier 1 deck has been drawn
\* empty, and a market slot stays empty because its tier's deck is empty
C25_Witness ==
  /\ state.decks[1] = <<>>
  /\ \E i \in PlayerSet : state.players[i].reservedCards # <<>>
  /\ \E i \in PlayerSet : state.players[i].purchasedCards # <<>>
  /\ \E t \in {1, 2, 3} : \E k \in 1..Len(state.market[t]) : state.market[t][k] = NULL

\* ---------------------------------------------------------------------------
\* C26  Market refill: in every reachable state (after each applyAction
\* returns), a market slot of a tier is empty (null) only if that tier's deck
\* is empty; equivalently each tier shows 4 face-up cards whenever its deck is
\* non-empty.
\* ---------------------------------------------------------------------------
FaceUp(s, t) == {k \in 1..Len(s.market[t]) : s.market[t][k] # NULL}

C26_MarketRefill ==
  \A t \in {1, 2, 3} :
     /\ (\E k \in 1..Len(state.market[t]) : state.market[t][k] = NULL)
           => state.decks[t] = <<>>
     /\ state.decks[t] # <<>> => Cardinality(FaceUp(state, t)) = 4

\* three actions into the game a player has reserved one card and bought a
\* tier 1 card, which therefore came from the market: its slot has been
\* refilled from the tier 1 deck, which is not yet empty, while a tier 3 slot
\* stays empty over the empty tier 3 deck
C26_Witness ==
  /\ steps = 3
  /\ \E i \in PlayerSet :
        /\ Len(state.players[i].reservedCards) = 1
        /\ Len(state.players[i].purchasedCards) = 1
        /\ findCardById(state.players[i].purchasedCards[1]).tier = 1
  /\ Cardinality(FaceUp(state, 1)) = 4
  /\ Len(state.decks[1]) = Len(TIER_1_CARDS) - MARKET_SIZE - 1
  /\ \E k \in 1..Len(state.market[3]) : state.market[3][k] = NULL

\* ---------------------------------------------------------------------------
\* C27  In every reachable state, each player's stored prestigePoints equals
\* the sum of the prestige points of that player's purchasedCards plus 3 times
\* the number of nobles that player owns, and each player's bonus count per
\* colour equals the number of their purchasedCards with that bonus colour.
\* ---------------------------------------------------------------------------
CardsWithBonus(player, c) ==
  Cardinality({k \in 1..Len(player.purchasedCards) :
                 findCardById(player.purchasedCards[k]).bonus = c})

C27_StoredTotals ==
  \A i \in PlayerSet :
     /\ state.players[i].prestigePoints
          = CardPoints(state.players[i].purchasedCards) + 3 * Len(state.players[i].nobles)
     /\ \A c \in Colors :
           state.players[i].bonuses[c] = CardsWithBonus(state.players[i], c)

\* a player owns a noble, purchased cards that carry prestige, and two cards
\* of one bonus colour
C27_Witness ==
  \E i \in PlayerSet :
     /\ Len(state.players[i].nobles) >= 1
     /\ CardPoints(state.players[i].purchasedCards) > 0
     /\ \E c \in Colors : state.players[i].bonuses[c] >= 2

\* ---------------------------------------------------------------------------
\* C28  For every reachable state and player p, if p is not the current
\* player, or pendingGemDiscard or pendingNobleSelection names a player other
\* than p, then getAvailableActions(state, p) reports every main-action option
\* set empty (no take-three, take-two, reservable or purchasable options) and
\* all capability flags (canTakeThree, canReserve) false.
\* ---------------------------------------------------------------------------
NamesAnother(flag, p) == flag # UNDEFINED /\ flag # p

NoMainOptions(available) ==
  /\ available.takeGems.availableForThree = <<>>
  /\ available.takeGems.availableForTwo = <<>>
  /\ available.reservableCards.marketCards = <<>>
  /\ available.reservableCards.blindDrawTiers = <<>>
  /\ available.purchasableCards.marketCards = <<>>
  /\ available.purchasableCards.reservedCards = <<>>

NoCapability(available) ==
  /\ ~available.takeGems.canTakeThree
  /\ ~available.reservableCards.canReserve

C28_OthersSeeNothing ==
  \A p \in PlayerIds :
     (\/ ~IsCurrent(state, p)
      \/ NamesAnother(state.pendingGemDiscard, p)
      \/ NamesAnother(state.pendingNobleSelection, p))
       => /\ NoMainOptions(getAvailableActions(state, p))
          /\ NoCapability(getAvailableActions(state, p))

\* ---------------------------------------------------------------------------
\* C29  For every reachable state in which pendingGemDiscard or
\* pendingNobleSelection names player p, getAvailableActions(state, p)
\* populates only that sub-flow's options (a positive gemsToDiscard equal to
\* p's total minus 10 when the discard names p, the list of p's eligible
\* nobles when the selection names p, and nothing for a sub-flow that does not
\* name p) and reports every main-action option set empty.
\* ---------------------------------------------------------------------------
DiscardOptions(s, p, available) ==
  IF s.pendingGemDiscard = p
  THEN /\ available.mustDiscardGems
       /\ available.gemsToDiscard > 0
       /\ available.gemsToDiscard = getTotalGems(s, p) - MAX_GEMS
  ELSE /\ ~available.mustDiscardGems
       /\ available.gemsToDiscard = 0

SelectionOptions(s, p, available) ==
  IF s.pendingNobleSelection = p
  THEN /\ available.mustSelectNoble
       /\ available.selectableNobles # <<>>
       /\ available.selectableNobles = getEligibleNobles(s, p)
  ELSE /\ ~available.mustSelectNoble
       /\ available.selectableNobles = <<>>

C29_SubFlowOnly ==
  \A p \in PlayerIds :
     (state.pendingGemDiscard = p \/ state.pendingNobleSelection = p)
       => /\ DiscardOptions(state, p, getAvailableActions(state, p))
          /\ SelectionOptions(state, p, getAvailableActions(state, p))
          /\ NoMainOptions(getAvailableActions(state, p))
          /\ NoCapability(getAvailableActions(state, p))

\* ---------------------------------------------------------------------------
\* C30  Availability completeness: for every reachable state and player p,
\* every main action by p that validateAction accepts is reported by
\* getAvailableActions(state, p): the colours of a take-three in
\* availableForThree with canTakeThree true, the colour of a take-two in
\* availableForTwo, the card id of a market reservation in
\* reservableCards.marketCards and the tier of a blind reservation in
\* blindDrawTiers with canReserve true, the card id of a purchase in
\* purchasableCards.
\* ---------------------------------------------------------------------------
MainProbes(p) ==
  { TakeThree(p, gems) : gems \in TakeThreeProbes }
    \cup { TakeTwo(p, gem) : gem \in GemTypes }
    \cup ReserveProbes(p)
    \cup { Purchase(p, cardId) : cardId \in ProbeCardIds }

Reported(available, action) ==
  CASE action.type = "TAKE_THREE_GEMS" ->
         /\ available.takeGems.canTakeThree
         /\ Range(action.gems) \subseteq Range(available.takeGems.availableForThree)
    [] action.type = "TAKE_TWO_GEMS" ->
         action.gem \in Range(available.takeGems.availableForTwo)
    [] action.type = "RESERVE_CARD" ->
         /\ available.reservableCards.canReserve
         /\ IF action.cardId # NULL
            THEN action.cardId \in Range(available.reservableCards.marketCards)
            ELSE action.tier \in Range(available.reservableCards.blindDrawTiers)
    [] action.type = "PURCHASE_CARD" ->
         action.cardId \in Range(available.purchasableCards.marketCards)
                             \cup Range(available.purchasableCards.reservedCards)

C30_AvailabilityComplete ==
  \A p \in PlayerIds : \A action \in MainProbes(p) :
     validateAction(state, action).valid
       => Reported(getAvailableActions(state, p), action)

\* ---------------------------------------------------------------------------
\* C31  createGame with playerCount n in {2,3,4} and n players returns a state
\* whose bank holds 4, 5 or 7 of each colour (for n = 2, 3, 4) and exactly 5
\* gold, every player has zero gems, bonuses, cards, nobles and prestige, the
\* market has 4 cards per tier, n+1 nobles are available, phase is 'playing',
\* round is 1, currentPlayerIndex is 0, winners is empty and neither pending
\* flag is set.
\* ---------------------------------------------------------------------------
ColouredPerPlayerCount(n) == CASE n = 2 -> 4 [] n = 3 -> 5 [] n = 4 -> 7

FreshPlayer(player) ==
  /\ \A g \in GemTypes : player.gems[g] = 0
  /\ \A c \in Colors : player.bonuses[c] = 0
  /\ player.reservedCards = <<>>
  /\ player.purchasedCards = <<>>
  /\ player.nobles = <<>>
  /\ player.prestigePoints = 0

FreshGame(s) ==
  LET n == Len(s.players)
  IN  /\ n \in {2, 3, 4}
      /\ \A c \in Colors : s.bank[c] = ColouredPerPlayerCount(n)
      /\ s.bank.gold = 5
      /\ \A i \in 1..n : FreshPlayer(s.players[i])
      /\ Cardinality({s.players[i].id : i \in 1..n}) = n
      /\ \A t \in {1, 2, 3} :
            /\ Len(s.market[t]) = 4
            /\ \A k \in 1..4 : s.market[t][k] \in CardIds
            /\ \A k \in 1..4 : findCardById(s.market[t][k]).tier = t
            /\ Cardinality(Range(s.market[t])) = 4
      /\ Len(s.nobles) = n + 1
      /\ Cardinality(Range(s.nobles)) = n + 1
      /\ Range(s.nobles) \subseteq NobleIds
      /\ s.phase = "playing"
      /\ s.round = 1
      /\ s.currentPlayerIndex = 0
      /\ s.winners = <<>>
      /\ s.pendingGemDiscard = UNDEFINED
      /\ s.pendingNobleSelection = UNDEFINED

C31_FreshGame == steps = 0 => FreshGame(state)

\* the state createGame returned for four players
C31_Witness ==
  /\ steps = 0
  /\ Len(state.players) = 4
  /\ state.bank.ruby = 7
  /\ state.bank.gold = 5
  /\ Len(state.nobles) = 5

NegativeEntry(gems) == \E g \in DOMAIN gems : gems[g] < 0

ZeroEntry(gems) == \E g \in DOMAIN gems : gems[g] = 0

Reconnected(r, i, socketId, result) ==
  /\ result.error = UNDEFINED
  /\ Len(result.room.players) = Len(r.players)
  /\ result.room.players[i].id = r.players[i].id
  /\ result.room.players[i].socketId = socketId
  /\ result.room.players[i].status = "connected"

C33_Reconnection ==
  \A i \in 1..Len(room.players) :
     room.players[i].status = "disconnected"
       => \A socketId \in SocketIds \ {room.players[i].socketId} :
             Reconnected(room, i, socketId,
                         joinRoom(room, room.players[i].id, socketId,
                                  room.players[i].isSpectator))

\* ---------------------------------------------------------------------------
\* C40  Action authenticity in the embedding layer: a game action received on
\* a socket is validated and applied to the room's game state only if the
\* action's playerId equals the player id bound to the submitting socket; no
\* connected player can cause an action to be applied on behalf of another
\* player.
\* ---------------------------------------------------------------------------
GameActionTypes ==
  {"TAKE_THREE_GEMS", "TAKE_TWO_GEMS", "RESERVE_CARD", "PURCHASE_CARD",
   "SELECT_NOBLE", "DISCARD_GEMS"}

C40_ActionAuthenticity ==
  lastAction.type \in GameActionTypes
    => lastAction.playerId = lastAction.socketPlayerId

\* ---------------------------------------------------------------------------
\* C34  Whenever an applied action moves phase from 'playing' to 'final_round'
\* (or directly to 'ended'), endGameTriggeredBy is the id of the player who
\* submitted that action.
\* ---------------------------------------------------------------------------
TriggerIsSubmitter(before, after, action) ==
  (before.phase = "playing" /\ after.phase \in {"final_round", "ended"})
    => after.endGameTriggeredBy = action.playerId

NamesCurrent(s, flag) == flag # UNDEFINED => IsCurrent(s, flag)

C35_PendingFlags ==
  /\ ~(state.pendingGemDiscard # UNDEFINED /\ state.pendingNobleSelection # UNDEFINED)
  /\ NamesCurrent(state, state.pendingGemDiscard)
  /\ NamesCurrent(state, state.pendingNobleSelection)

\* ---------------------------------------------------------------------------
\* C36  No stale pending flag: in every reachable state, if pendingGemDiscard
\*      names p then p holds more than 10 gems, and if pendingNobleSelection
\*      names p then at least two nobles of the pool are satisfied by p's
\*      bonuses; hence the pending sub-flow can be resolved by an accepted
\*      DISCARD_GEMS or SELECT_NOBLE from p.
\* ---------------------------------------------------------------------------
DiscardFlagFresh(s, p) ==
  s.pendingGemDiscard = p =>
    /\ getTotalGems(s, p) > MAX_GEMS
    /\ \E gems \in DiscardInputs : validateAction(s, Discard(p, gems)).valid

SelectionFlagFresh(s, p) ==
  s.pendingNobleSelection = p =>
    /\ Len(getEligibleNobles(s, p)) >= 2
    /\ \E nobleId \in SelectInputs : validateAction(s, SelectNoble(p, nobleId)).valid

C36_NoStaleFlag ==
  \A p \in PlayerIds : DiscardFlagFresh(state, p) /\ SelectionFlagFresh(state, p)

\* ---------------------------------------------------------------------------
\* C37  Turn integrity: every action that applyAction accepts, of any type
\*      (SELECT_NOBLE and DISCARD_GEMS included), was submitted by the player
\*      who was current before the action; in particular an action that
\*      changes currentPlayerIndex, round or phase was.
\* ---------------------------------------------------------------------------
SubmittedByCurrent(before, action) == IsCurrent(before, action.playerId)

C37_TurnIntegrity == [][SubmittedByCurrent(state, lastAction')]_vars

\* ---------------------------------------------------------------------------
\* C38  Availability soundness: for every reachable state and player p, every
\*      option that getAvailableActions(state, p) reports is an action that
\*      validateAction accepts: each colour of availableForThree taken singly
\*      (when canTakeThree), each colour of availableForTwo, RESERVE_CARD for
\*      each card id of reservableCards.marketCards and each tier of
\*      blindDrawTiers, PURCHASE_CARD for each card id of purchasableCards,
\*      and SELECT_NOBLE for each noble of selectableNobles.
\* ---------------------------------------------------------------------------
OptionsOf(p, available) ==
  { TakeThree(p, <<gem>>) :
      gem \in IF available.takeGems.canTakeThree
              THEN Range(available.takeGems.availableForThree) ELSE {} }
    \cup { TakeTwo(p, gem) : gem \in Range(available.takeGems.availableForTwo) }
    \cup { Reserve(p, cardId, tier) :
             cardId \in Range(available.reservableCards.marketCards), tier \in {1, 2, 3} }
    \cup { Reserve(p, NULL, tier) : tier \in Range(available.reservableCards.blindDrawTiers) }
    \cup { Purchase(p, cardId) :
             cardId \in Range(available.purchasableCards.marketCards)
                          \cup Range(available.purchasableCards.reservedCards) }
    \cup { SelectNoble(p, nobleId) : nobleId \in Range(available.selectableNobles) }

Accepted(action) == validateAction(state, action).valid

SomeActionAccepted(p) ==
  \/ \E gem \in GemTypes : Accepted(TakeThree(p, <<gem>>)) \/ Accepted(TakeTwo(p, gem))
  \/ \E cardId \in CardIds : Accepted(Reserve(p, cardId, 1)) \/ Accepted(Purchase(p, cardId))
  \/ \E tier \in {1, 2, 3} : Accepted(Reserve(p, NULL, tier))
  \/ \E nobleId \in NobleIds : Accepted(SelectNoble(p, nobleId))
  \/ \E gems \in DiscardInputs : Accepted(Discard(p, gems))

C39_NoStuckGame ==
  isGameInProgress(state) => \E p \in PlayerIds : SomeActionAccepted(p)

====
